---- MODULE Spec2Model ----
(***************************************************************************)
(* Model of the workload manager of the email management agent             *)
(* (src/workload_manager.py): task extraction from a message, deadline     *)
(* extraction and resolution, priority classification.                     *)
(*                                                                         *)
(* Text is modelled as a sequence of tokens.  A token is a word or a fixed *)
(* phrase of the pattern tables ("please", "this week"), a numeral, a      *)
(* punctuation mark, or the newline that joins subject and body.  The text *)
(* a token sequence stands for is its tokens in order, a single blank      *)
(* before every token that is neither punctuation nor a newline and does   *)
(* not start a line.  Regular expressions are evaluated on that text.      *)
(***************************************************************************)
EXTENDS Integers, Sequences, FiniteSets, TLC

VARIABLES now, email, tasks, result, phase, manager, schedule

\* the notification system: the flag and the thread object of the instance,
\* its queue, the position of every worker thread ever started, the calls of
\* _process_notification made so far, the number of notifications appended,
\* the position of the thread that calls start and stop, and the value its
\* last call returned
VARIABLES thread_running, notification_thread, notification_queue, threads,
          processed, appended, caller, returned

notify_vars == <<thread_running, notification_thread, notification_queue, threads,
                 processed, appended, caller, returned>>

\* the learning system: its user model and the interaction it tracked last
VARIABLES user_model, interaction

learn_vars == <<user_model, interaction>>

\* the web application: its two globals, the service object of gmail_auth
\* (built or not), the session of every client, and the last response sent
VARIABLES processed_emails, last_fetch_time, service, session, http_response

app_vars == <<processed_emails, last_fetch_time, service, session, http_response>>

\* the state of the services around the workload manager
service_vars == <<notify_vars, learn_vars, app_vars>>

vars == <<now, email, tasks, result, phase, manager, schedule, service_vars>>

(***************************************************************************)
(* Bounds of the model.                                                    *)
(***************************************************************************)
\* the clock runs over FirstDay .. FirstDay + MaxDay
MaxDay == 6
\* longest enumerated message body, in tokens
MaxBodyLen == 3
\* longest enumerated deadline phrase, in tokens
MaxPhraseLen == 3
\* most days between the receipt of a message and its processing
MaxDelay == 1

\* Python values that may be of several types carry their type
PyNone == [py |-> "None"]

PyStr(toks) == [py |-> "str", s |-> toks]

\* the browsers that send requests to the application
Clients == {"owner", "visitor"}

\* no request has been answered yet; then the answer to a request: the
\* ids of the emails whose content it carries, and the count it reports
NoResponse == [route |-> "none", client |-> "owner", status |-> "none",
               emails |-> << >>, count |-> 0]

Response(route, client, status, emails, count) ==
    [route |-> route, client |-> client, status |-> status, emails |-> emails,
     count |-> count]

\* nothing has been called yet; then the call and the value it returned
NoCall == [call |-> "none", value |-> FALSE]

Return_of(call, value) == [call |-> call, value |-> value]

(***************************************************************************)
(* datetime: proleptic Gregorian ordinals, as datetime.date computes them. *)
(***************************************************************************)
DAYS_IN_MONTH == <<31, 28, 31, 30, 31, 30, 31, 31, 30, 31, 30, 31>>

DAYS_BEFORE_MONTH == <<0, 31, 59, 90, 120, 151, 181, 212, 243, 273, 304, 334>>

MAXYEAR == 9999

is_leap(year) == year % 4 = 0 /\ (year % 100 # 0 \/ year % 400 = 0)

days_before_year(year) ==
    LET y == year - 1
    IN  y * 365 + (y \div 4) - (y \div 100) + (y \div 400)

days_in_month(year, month) ==
    IF month = 2 /\ is_leap(year) THEN 29 ELSE DAYS_IN_MONTH[month]

days_before_month(year, month) ==
    DAYS_BEFORE_MONTH[month] + (IF month > 2 /\ is_leap(year) THEN 1 ELSE 0)

ymd2ord(year, month, day) ==
    days_before_year(year) + days_before_month(year, month) + day

\* date.max.toordinal()
MaxOrdinal == ymd2ord(MAXYEAR, 12, 31)

\* date(2025, 1, 27).toordinal(), a Monday; the window crosses a month end
FirstDay == ymd2ord(2025, 1, 27)

\* the month and day of day n (from 0) of a year; m0 is the estimate
\* (n + 50) >> 5 of the month, one too large at most
month_day(year, leap1, n, m0) ==
    IF DAYS_BEFORE_MONTH[m0] + (IF m0 > 2 THEN leap1 ELSE 0) > n
    THEN [year |-> year, month |-> m0 - 1,
          day |-> n - (DAYS_BEFORE_MONTH[m0 - 1] + (IF m0 - 1 > 2 THEN leap1 ELSE 0)) + 1]
    ELSE [year |-> year, month |-> m0,
          day |-> n - (DAYS_BEFORE_MONTH[m0] + (IF m0 > 2 THEN leap1 ELSE 0)) + 1]

\* n400, n100, n4: the whole 400-, 100- and 4-year cycles before the day;
\* r4: the day within its 4-year cycle
from_cycles(n400, n100, n4, r4) ==
    IF r4 \div 365 = 4 \/ n100 = 4
    THEN [year |-> n400 * 400 + n100 * 100 + n4 * 4 + (r4 \div 365), month |-> 12,
          day |-> 31]
    ELSE month_day(n400 * 400 + 1 + n100 * 100 + n4 * 4 + (r4 \div 365),
                   IF r4 \div 365 = 3 /\ (n4 # 24 \/ n100 = 3) THEN 1 ELSE 0,
                   r4 % 365, ((r4 % 365) + 50) \div 32)

\* date.fromordinal(ordinal), as year, month and day
ord2ymd(ordinal) ==
    from_cycles((ordinal - 1) \div 146097,
                ((ordinal - 1) % 146097) \div 36524,
                (((ordinal - 1) % 146097) % 36524) \div 1461,
                (((ordinal - 1) % 146097) % 36524) % 1461)

\* date.weekday(): Monday is 0
weekday(ordinal) == (ordinal + 6) % 7

(***************************************************************************)
(* Tokens.                                                                 *)
(***************************************************************************)
NL == "<nl>"

\* the characters of the class [\.;,] that ends every captured clause
Terminators == {".", ";", ","}

\* tokens written without a blank before them
Punctuation == Terminators \cup {"?", ":"}

WeekdayNames ==
    <<"monday", "tuesday", "wednesday", "thursday", "friday", "saturday", "sunday">>

Weekdays == {WeekdayNames[i] : i \in 1..7}

Units == {"day", "days", "week", "weeks", "month", "months"}

\* the numerals of the model, each with its decimal digits
NumeralDigits ==
    ("0" :> <<0>>) @@ ("2" :> <<2>>) @@ ("7" :> <<7>>) @@ ("31" :> <<3, 1>>)
      @@ ("45" :> <<4, 5>>) @@ ("4000000" :> <<4, 0, 0, 0, 0, 0, 0>>)

Numerals == DOMAIN NumeralDigits

RECURSIVE digits_value(_)
digits_value(ds) ==
    IF ds = << >> THEN 0
    ELSE 10 * digits_value(SubSeq(ds, 1, Len(ds) - 1)) + ds[Len(ds)]

\* int(match.group(1)) of a \d+ group
int(tok) == digits_value(NumeralDigits[tok])

\* the times of day of the model, as written in a phrase
TimesOfDay ==
    ("3pm" :> [hour |-> 15, minute |-> 0]) @@ ("00:00" :> [hour |-> 0, minute |-> 0])

Times == DOMAIN TimesOfDay

IsWord(tok) == tok \notin Punctuation /\ tok # NL

(***************************************************************************)
(* Regular-expression helpers on token sequences.                          *)
(***************************************************************************)
\* the index of the first token at or after i that is not a newline
RECURSIVE skip_newlines(_, _)
skip_newlines(toks, i) ==
    IF i <= Len(toks) /\ toks[i] = NL THEN skip_newlines(toks, i + 1) ELSE i

\* \s+ after token i: the index where the text goes on, or 0 when no white
\* space follows token i
space_end(toks, i, j) ==
    IF j > Len(toks) THEN (IF j > i + 1 THEN j ELSE 0)
    ELSE IF j > i + 1 \/ IsWord(toks[j]) THEN j
    ELSE 0

after_space(toks, i) == space_end(toks, i, skip_newlines(toks, i + 1))

\* w1\s+w2\s+...\s+wn matched with w1 at token i: the index of wn's token,
\* or 0.  ws[k] is the set of words allowed at place k.
RECURSIVE words_at(_, _, _)
words_at(toks, i, ws) ==
    IF i = 0 \/ i > Len(toks) \/ toks[i] \notin ws[1] THEN 0
    ELSE IF Len(ws) = 1 THEN i
    ELSE words_at(toks, after_space(toks, i), Tail(ws))

\* re.search: the leftmost i at or after from where ws matches, or 0
RECURSIVE search_words(_, _, _)
search_words(toks, from, ws) ==
    IF from > Len(toks) THEN 0
    ELSE IF words_at(toks, from, ws) # 0 THEN from
    ELSE search_words(toks, from + 1, ws)

\* re.search(r'\b(word)\b', text)
has_word(toks, w) == \E i \in 1..Len(toks) : toks[i] = w

(***************************************************************************)
(* Deadline resolution: WorkloadManager._parse_deadline.                   *)
(***************************************************************************)
\* datetime.time(17, 0)
EndOfBusiness == [hour |-> 17, minute |-> 0]

Midnight == [hour |-> 0, minute |-> 0]

\* strftime('%Y-%m-%d'), strftime('%H:%M') and datetime.combine of the
\* resolved date (an ordinal) and time
make_deadline(ordinal, time, deadline_text) ==
    [py            |-> "dict",
     date          |-> ord2ymd(ordinal),
     time          |-> time,
     datetime      |-> <<ordinal, time.hour, time.minute>>,
     original_text |-> deadline_text]

\* the except branches: one week from now, 17:00
default_deadline(deadline_text, clock) ==
    make_deadline(clock + 7, EndOfBusiness, deadline_text)

Raised == [raised |-> TRUE]

Value(ordinal, time) == [raised |-> FALSE, ordinal |-> ordinal, time |-> time]

\* now + datetime.timedelta(days=n): OverflowError past date.max
add_days(clock, n) ==
    IF n > 999999999 \/ clock + n > MaxOrdinal THEN Raised
    ELSE Value(clock + n, EndOfBusiness)

\* the day d.day of the given month, clamped to the length of the month
clamped(d, year, month) ==
    ymd2ord(year, month,
            IF d.day > days_in_month(year, month) THEN days_in_month(year, month)
            ELSE d.day)

\* d + relativedelta(months=n): the day of the month is kept, clamped to the
\* length of the target month; ValueError past year 9999
add_months_to(d, n) ==
    IF d.year + ((d.month - 1 + n) \div 12) > MAXYEAR THEN Raised
    ELSE Value(clamped(d, d.year + ((d.month - 1 + n) \div 12),
                       ((d.month - 1 + n) % 12) + 1),
               EndOfBusiness)

add_months(clock, n) == add_months_to(ord2ymd(clock), n)

\* the "this month" branch: the last day of the month of d
last_of_month(d) ==
    IF d.month = 12 THEN ymd2ord(d.year, 12, 31)
    ELSE ymd2ord(d.year, d.month + 1, 1) - 1

end_of_month(clock) == last_of_month(ord2ymd(clock))

WithinWords == <<{"within"}, Numerals, Units>>

NextDayWords == <<{"next"}, Weekdays>>

\* day_map.get(day_name, 0)
day_map(name) == (CHOOSE i \in 1..7 : WeekdayNames[i] = name) - 1

\* zero_is_week without the test: a distance of 0 days stays 0
zero_stays(days) == days

\* `if days == 0: days = 7`
zero_is_week(days) == IF days = 0 THEN 7 ELSE days

\* the tokens of a phrase that are in S, in order
RECURSIVE select_tokens(_, _)
select_tokens(toks, S) ==
    IF toks = << >> THEN << >>
    ELSE (IF Head(toks) \in S THEN <<Head(toks)>> ELSE << >>)
           \o select_tokens(Tail(toks), S)

\* parserinfo.convertyear: a numeral below 100 is a year of the century
\* around this_year
convertyear(year, this_year) ==
    IF year >= 100 THEN year
    ELSE IF year + (this_year \div 100) * 100 >= this_year + 50
    THEN year + (this_year \div 100) * 100 - 100
    ELSE IF year + (this_year \div 100) * 100 < this_year - 50
    THEN year + (this_year \div 100) * 100 + 100
    ELSE year + (this_year \div 100) * 100

\* relativedelta(weekday=...): the first day at or after ordinal that is the
\* last weekday named, the ordinal itself when none is named
to_weekday(ordinal, days) ==
    IF days = << >> THEN ordinal
    ELSE ordinal + ((day_map(days[Len(days)]) - weekday(ordinal)) % 7)

\* the default date with its year replaced
in_year(d, year, days) ==
    IF year > MAXYEAR THEN Raised
    ELSE Value(to_weekday(clamped(d, year, d.month), days), Midnight)

\* the parsed date with the time of day the phrase gives, midnight without
at_time(r, times) ==
    IF r.raised \/ times = << >> THEN r ELSE Value(r.ordinal, TimesOfDay[times[1]])

\* what the parser makes of the numerals nums and weekday names days of a
\* phrase, d being the default date (today)
parsed(nums, days, times, d, clock) ==
    IF nums = << >> /\ days = << >>
    THEN (IF times = << >> THEN Raised ELSE Value(clock, Midnight))
    ELSE IF nums = << >> THEN Value(to_weekday(clock, days), Midnight)
    ELSE IF int(nums[1]) > 31 THEN in_year(d, convertyear(int(nums[1]), d.year), days)
    ELSE IF int(nums[1]) < 1 \/ int(nums[1]) > days_in_month(d.year, d.month) THEN Raised
    ELSE Value(ymd2ord(d.year, d.month, int(nums[1])), Midnight)

\* dateutil.parser.parse(deadline_text, fuzzy=True) on a phrase with at most
\* one numeral: words that are neither numerals nor weekday names are
\* skipped; a numeral up to 31 is the day of the default (current) month, a
\* larger one the year; a weekday name without a day moves the default date
\* to that weekday, today included; a time of day is the time of the result,
\* on the default date when the phrase holds nothing else; a phrase with
\* none of these raises.
parser_parse(toks, clock) ==
    at_time(parsed(select_tokens(toks, Numerals), select_tokens(toks, Weekdays),
                   select_tokens(toks, Times), ord2ymd(clock), clock),
            select_tokens(toks, Times))

\* the time of a parsed date, 17:00 when it is midnight; one week from now
\* when the parser raised
date_or_next_week(parsed_date, clock) ==
    IF parsed_date.raised THEN add_days(clock, 7)
    ELSE Value(parsed_date.ordinal,
               IF parsed_date.time # Midnight THEN parsed_date.time ELSE EndOfBusiness)

\* the "within" branch, amount and unit being groups 1 and 2 of the match
within(clock, amount, unit) ==
    IF unit \in {"day", "days"} THEN add_days(clock, amount)
    ELSE IF unit \in {"week", "weeks"} THEN add_days(clock, amount * 7)
    ELSE add_months(clock, amount)

\* the token after token i and the white space that follows it
word_after(toks, i) == toks[after_space(toks, i)]

\* the "tomorrow" branch without the added day
tomorrow_same_day(clock) == add_days(clock, 0)

\* the "tomorrow" branch: now + timedelta(days=1), at end of business
tomorrow(clock) == add_days(clock, 1)

\* the "this week" branch aiming at weekday 3, Thursday
this_week_thursday(clock) == add_days(clock, zero_is_week((3 - weekday(clock)) % 7))

\* the "this week" branch: the Friday (weekday 4) of the week, a week on
\* when today is Friday
this_week(clock) == add_days(clock, zero_is_week((4 - weekday(clock)) % 7))

\* the "next <weekday>" branch: the next occurrence of target_day
next_day(clock, target_day) ==
    add_days(clock, zero_is_week((target_day - weekday(clock)) % 7))

\* the branches of _parse_deadline, in the order of the if/elif chain
resolve_branches(deadline_text, clock) ==
    IF has_word(deadline_text, "today") THEN Value(clock, EndOfBusiness)
    ELSE IF has_word(deadline_text, "tomorrow") THEN tomorrow(clock)
    ELSE IF search_words(deadline_text, 1, <<{"this"}, {"week"}>>) # 0
    THEN this_week(clock)
    ELSE IF search_words(deadline_text, 1, <<{"next"}, {"week"}>>) # 0
    THEN add_days(clock, (9 - weekday(clock)) % 7)
    ELSE IF search_words(deadline_text, 1, <<{"this"}, {"month"}>>) # 0
    THEN Value(end_of_month(clock), EndOfBusiness)
    ELSE IF search_words(deadline_text, 1, WithinWords) # 0
    THEN within(clock,
                int(word_after(deadline_text, search_words(deadline_text, 1, WithinWords))),
                word_after(deadline_text,
                           after_space(deadline_text,
                                       search_words(deadline_text, 1, WithinWords))))
    ELSE IF search_words(deadline_text, 1, NextDayWords) # 0
    THEN next_day(clock, day_map(word_after(deadline_text,
                                  search_words(deadline_text, 1, NextDayWords))))
    ELSE date_or_next_week(parser_parse(deadline_text, clock), clock)

\* deadline_of with `except: return None` for a step that raised
deadline_or_none(r, deadline_text, clock) ==
    IF r.raised THEN PyNone ELSE make_deadline(r.ordinal, r.time, deadline_text)

\* the deadline dict of a resolved date, the default one when a step raised
deadline_of(r, deadline_text, clock) ==
    IF r.raised THEN default_deadline(deadline_text, clock)
    ELSE make_deadline(r.ordinal, r.time, deadline_text)

\* _parse_deadline(deadline_text), called when the clock (datetime.now())
\* reads `clock`
parse_deadline(deadline_text, clock) ==
    deadline_of(resolve_branches(deadline_text, clock), deadline_text, clock)

(***************************************************************************)
(* The pattern tables of WorkloadManager.__init__.  A pattern is a list of *)
(* alternatives, each a row of word sets joined by \s+; a clause pattern   *)
(* then captures (.*?) up to the first of [\.;,], a fixed pattern captures *)
(* the words gfrom..gto of its row.                                        *)
(***************************************************************************)
Lead(words) == [words |-> words, gfrom |-> 0, gto |-> 0]

Row(words, gfrom, gto) == [words |-> words, gfrom |-> gfrom, gto |-> gto]

\* the words a match of one of the rows can start with
FirstWords(alts) == UNION {alts[n].words[1] : n \in 1..Len(alts)}

ClausePattern(alts, colon) ==
    [alts |-> alts, colon |-> colon, clause |-> TRUE, first |-> FirstWords(alts)]

FixedPattern(alts) ==
    [alts |-> alts, colon |-> "none", clause |-> FALSE, first |-> FirstWords(alts)]

task_patterns ==
    << ClausePattern(<<Lead(<<{"please", "kindly", "could you", "can you"}>>)>>, "none"),
       ClausePattern(<<Lead(<<{"need", "want", "require"}, {"you"}, {"to"}>>)>>, "none"),
       ClausePattern(<<Lead(<<{"would", "should"}, {"like", "appreciate"}, {"it"}, {"if"},
                              {"you"}, {"could", "would"}>>),
                       Lead(<<{"would", "should"}, {"like", "appreciate"}, {"if"},
                              {"you"}, {"could", "would"}>>)>>, "none"),
       ClausePattern(<<Lead(<<{"assign", "assigning", "assigned"}, {"to"}, {"you"}>>),
                       Lead(<<{"assign", "assigning", "assigned"}, {"you"}>>)>>, "none"),
       ClausePattern(<<Lead(<<{"your"}, {"task", "assignment", "responsibility"},
                              {"is"}, {"to"}>>)>>, "none"),
       ClausePattern(<<Lead(<<{"action"}, {"item", "items"}, {"for"}, {"you"}>>),
                       Lead(<<{"action"}, {"item", "items"}>>)>>, "attached"),
       ClausePattern(<<Lead(<<{"follow"}, {"up"}, {"item", "items"}>>),
                       Lead(<<{"follow-up"}, {"item", "items"}>>),
                       Lead(<<{"follow"}, {"up", "ups"}>>),
                       Lead(<<{"follow-up", "follow-ups"}>>)>>, "attached"),
       ClausePattern(<<Lead(<<{"due", "complete", "finish", "submit", "deliver"},
                              {"by"}>>)>>, "lazy"),
       ClausePattern(<<Lead(<<{"waiting", "depend", "depending"}, {"on"}, {"you"},
                              {"to", "for"}>>)>>, "none"),
       ClausePattern(<<Lead(<<{"expecting", "expect"}, {"you"}, {"to"}>>)>>, "none") >>

RelativeTerms ==
    << <<{"today"}>>, <<{"tomorrow"}>>, <<{"this"}, {"week"}>>, <<{"next"}, {"week"}>>,
       <<{"this"}, {"month"}>> >>

\* by\s+(?:the\s+)?end\s+of\s+(today|tomorrow|this\s+week|next\s+week|this\s+month)
EndOfRows ==
    [k \in 1..10 |->
        LET term == RelativeTerms[((k - 1) % 5) + 1]
            lead == IF k <= 5 THEN <<{"by"}, {"the"}, {"end"}, {"of"}>>
                    ELSE <<{"by"}, {"end"}, {"of"}>>
        IN  Row(lead \o term, Len(lead) + 1, Len(lead) + Len(term))]

\* The two patterns for dates written with a month name ("by March 3") are
\* left out: month names are not among the tokens of the model.
deadline_patterns ==
    << ClausePattern(<<Lead(<<{"due", "deadline", "complete", "finish", "submit",
                               "deliver"}, {"by"}>>)>>, "none"),
       ClausePattern(<<Lead(<<{"due", "deadline", "completion"}, {"date"}, {"is"}>>),
                       Lead(<<{"due", "deadline", "completion"}, {"date"}>>)>>, "attached"),
       ClausePattern(<<Lead(<<{"needed", "required"}, {"by"}>>)>>, "none"),
       FixedPattern(<<Row(<<{"within"}, Numerals, Units>>, 2, 2)>>),
       FixedPattern(<<Row(<<{"in"}, {"the"}, {"next"}, Numerals, Units>>, 4, 4)>>),
       FixedPattern(EndOfRows),
       FixedPattern(<<Row(<<{"by"}, {"tomorrow"}>>, 2, 2),
                      Row(<<{"by"}, {"next"}, Weekdays>>, 2, 3)>>),
       FixedPattern(<<Row(<<{"by"}, {"this", "next"}, Weekdays>>, 2, 2)>>) >>

\* the tiers in the order of the urgency_indicators dict; an indicator is
\* its words in order
\* the tiers looked through from the lowest up
urgency_tiers_low_first == <<"low", "medium", "high", "critical">>

\* the keys of urgency_indicators, in the order of the dict
urgency_tiers == <<"critical", "high", "medium", "low">>

urgency_indicators ==
    [critical |-> { <<"urgent">>, <<"critical">>, <<"emergency">>, <<"asap">>,
                    <<"immediately">>, <<"right", "away">>, <<"highest", "priority">>,
                    <<"top", "priority">>, <<"crisis">>, <<"crucial">>, <<"vital">> },
     high     |-> { <<"important">>, <<"priority">>, <<"as", "soon", "as", "possible">>,
                    <<"timely">>, <<"pressing">>, <<"significant">>, <<"key">>,
                    <<"major">>, <<"essential">>, <<"necessary">> },
     medium   |-> { <<"needed">>, <<"required">>, <<"should">>, <<"would", "be", "good">>,
                    <<"appreciate">>, <<"helpful">>, <<"beneficial">>, <<"valuable">>,
                    <<"useful">> },
     low      |-> { <<"when", "you", "can">>, <<"at", "your", "convenience">>,
                    <<"if", "you", "have", "time">>, <<"optional">>,
                    <<"nice", "to", "have">>, <<"would", "be", "nice">>,
                    <<"not", "urgent">>, <<"low", "priority">> }]

\* task_time_estimates, in minutes
task_time_estimates ==
    [critical |-> 120, high |-> 90, medium |-> 60, low |-> 30, optional |-> 15]

\* sender_importance: the table the classifier reads
sender_importance == [s \in {"lead@corp"} |-> "high"]

(***************************************************************************)
(* Matching a pattern.                                                     *)
(***************************************************************************)
NoMatch == [ok |-> FALSE, group |-> << >>, start |-> 0, end |-> 0]

\* the first of two attempts that matches
or_else(m, other) == IF m.ok THEN m ELSE other

\* i in front of the positions of the rest of a row, << >> when the rest
\* does not match
cons(i, rest) == IF rest = << >> THEN << >> ELSE <<i>> \o rest

\* the token indices of a row matched with its first word at token i, or << >>
RECURSIVE word_positions(_, _, _)
word_positions(toks, i, ws) ==
    IF i = 0 \/ i > Len(toks) \/ toks[i] \notin ws[1] THEN << >>
    ELSE IF Len(ws) = 1 THEN <<i>>
    ELSE cons(i, word_positions(toks, after_space(toks, i), Tail(ws)))

\* the first of [\.;,] at or after token a with no newline on the way, or 0
RECURSIVE first_terminator(_, _)
first_terminator(toks, a) ==
    IF a = 0 \/ a > Len(toks) \/ toks[a] = NL THEN 0
    ELSE IF toks[a] \in Terminators THEN a
    ELSE first_terminator(toks, a + 1)

\* the clause from token a up to the terminator at token t
clause(toks, start, a, t) ==
    IF a = 0 \/ t = 0 THEN NoMatch
    ELSE [ok |-> TRUE, group |-> SubSeq(toks, a, t - 1), start |-> start, end |-> t]

\* \s+(.*?)[\.;,] after token p; no match when p is 0
clause_after(toks, start, p) ==
    IF p = 0 THEN NoMatch
    ELSE clause(toks, start, after_space(toks, p),
                first_terminator(toks, after_space(toks, p)))

\* .*?:\s+(.*?)[\.;,] from token a on: the first colon after which the rest
\* of the pattern matches
RECURSIVE lazy_colon(_, _, _)
lazy_colon(toks, start, a) ==
    IF a = 0 \/ a > Len(toks) \/ toks[a] = NL THEN NoMatch
    ELSE or_else(clause_after(toks, start, IF toks[a] = ":" THEN a ELSE 0),
                 lazy_colon(toks, start, a + 1))

\* the rest of a pattern after its row matched at the tokens pos, the last
\* of them token k
after_row(toks, i, pat, alt, pos, k) ==
    IF ~pat.clause
    THEN [ok |-> TRUE, group |-> SubSeq(toks, pos[alt.gfrom], pos[alt.gto]),
          start |-> i, end |-> k]
    ELSE IF pat.colon = "lazy" THEN lazy_colon(toks, i, after_space(toks, k))
    ELSE clause_after(toks, i,
                      IF pat.colon = "none" THEN k
                      ELSE IF k + 1 <= Len(toks) /\ toks[k + 1] = ":" THEN k + 1
                      ELSE 0)

matched_row(toks, i, pat, alt, pos) ==
    IF pos = << >> THEN NoMatch ELSE after_row(toks, i, pat, alt, pos, pos[Len(pos)])

match_alt(toks, i, pat, alt) ==
    matched_row(toks, i, pat, alt, word_positions(toks, i, alt.words))

\* the pattern matched at token i: its first alternative, from the n-th on,
\* that matches
RECURSIVE match_at(_, _, _, _)
match_at(toks, i, pat, n) ==
    IF n > Len(pat.alts) THEN NoMatch
    ELSE or_else(match_alt(toks, i, pat, pat.alts[n]), match_at(toks, i, pat, n + 1))

\* re.search(pattern, text[from:]): the leftmost match
RECURSIVE re_search(_, _, _)
re_search(toks, from, pat) ==
    IF from > Len(toks) THEN NoMatch
    ELSE IF toks[from] \notin pat.first THEN re_search(toks, from + 1, pat)
    ELSE or_else(match_at(toks, from, pat, 1), re_search(toks, from + 1, pat))

\* the match m and the matches after it
RECURSIVE re_finditer(_, _, _)
and_rest(toks, pat, m) ==
    IF ~m.ok THEN << >> ELSE <<m>> \o re_finditer(toks, m.end + 1, pat)

\* re.finditer(pattern, text): the matches left to right, none overlapping
re_finditer(toks, from, pat) == and_rest(toks, pat, re_search(toks, from, pat))

(***************************************************************************)
(* The characters of a text, for the context window.                       *)
(***************************************************************************)
\* a passage of 200 characters that holds no word of any pattern table
PARA == "<para>"

\* what is left of a word the window cuts through
CUT == "<cut>"

\* len(token), for every token a message of the model can hold
TokenChars ==
    [t \in Punctuation \cup {NL} |-> 1]
      @@ [t \in Numerals |-> Len(NumeralDigits[t])]
      @@ [i \in Weekdays |-> CASE i \in {"monday", "friday", "sunday"} -> 6
                               [] i = "tuesday" -> 7
                               [] i \in {"thursday", "saturday"} -> 8
                               [] OTHER -> 9]
      @@ [t \in {"by", "of"} |-> 2]
      @@ [t \in {"due", "end", "the", "day"} |-> 3]
      @@ [t \in {"this", "next", "week", "days", "item"} |-> 4]
      @@ [t \in {"today", "month", "weeks"} |-> 5]
      @@ [t \in {"please", "kindly", "report", "urgent", "within", "months", "action",
                 "submit"} |-> 6]
      @@ [t \in {"tomorrow", "optional"} |-> 8]
      @@ [t \in {"important"} |-> 9]
      @@ [t \in {"asap"} |-> 4]
      @@ [t \in {"URGENT", "review"} |-> 6]
      @@ [t \in {"newsletter"} |-> 10]
      @@ [t \in {PARA} |-> 200]

\* 1 when a blank is written before token i
blank_before(toks, i) == IF i > 1 /\ IsWord(toks[i]) /\ toks[i - 1] # NL THEN 1 ELSE 0

\* the offset of the first character of token i
RECURSIVE start_offset(_, _)
start_offset(toks, i) ==
    IF i = 1 THEN 0
    ELSE start_offset(toks, i - 1) + TokenChars[toks[i - 1]] + blank_before(toks, i)

end_offset(toks, i) == start_offset(toks, i) + TokenChars[toks[i]]

\* len(text)
text_len(toks) == IF toks = << >> THEN 0 ELSE end_offset(toks, Len(toks))

\* text.lower().find(target.lower()), as the index of the token where the
\* first occurrence starts; 0 when there is none
RECURSIVE find_tokens(_, _, _)
find_tokens(toks, target, i) ==
    IF i + Len(target) - 1 > Len(toks) THEN 0
    ELSE IF toks[i] = target[1] /\ SubSeq(toks, i, i + Len(target) - 1) = target THEN i
    ELSE find_tokens(toks, target, i + 1)

\* text[start:end]: the tokens inside the slice, a token the slice cuts
\* through left as a fragment
\* what text[start:end] holds of a token that spans s..e
piece(tok, s, e, start, end) ==
    IF s >= start /\ e <= end THEN <<tok>>
    ELSE IF e <= start \/ s >= end THEN << >>
    ELSE <<CUT>>

RECURSIVE slice(_, _, _, _)
slice(toks, i, start, end) ==
    IF i > Len(toks) THEN << >>
    ELSE piece(toks[i], start_offset(toks, i), end_offset(toks, i), start, end)
           \o slice(toks, i + 1, start, end)

Max(a, b) == IF a >= b THEN a ELSE b

Min(a, b) == IF a <= b THEN a ELSE b

\* text[start:end]
substring(text, total, start, end) ==
    IF start = 0 /\ end = total THEN text ELSE slice(text, 1, start, end)

\* the context of the occurrence that starts at offset index and is length long
window(text, total, index, length, context_size) ==
    substring(text, total, Max(0, index - context_size),
              Min(total, index + length + context_size))

\* the context of the occurrence of target at token i; "" when i is 0
context_at(text, target, i, context_size) ==
    IF i = 0 THEN << >>
    ELSE window(text, text_len(text), start_offset(text, i),
                end_offset(text, i + Len(target) - 1) - start_offset(text, i),
                context_size)

\* _get_context_around_text(text, target, context_size); the empty target
\* is found at offset 0
get_context_around_text(text, target, context_size) ==
    IF target = << >> THEN window(text, text_len(text), 0, 0, context_size)
    ELSE context_at(text, target, find_tokens(text, target, 1), context_size)

(***************************************************************************)
(* Deadline extraction and priority.                                       *)
(***************************************************************************)
\* the context_size the callers pass
ContextSize == 200

\* group(1).strip() of a match as a str, otherwise what the later patterns give
group_or(m, other) == IF m.ok THEN PyStr(m.group) ELSE other

\* _extract_deadline(text): group 1 of the first pattern, from the n-th on,
\* that matches, or None
RECURSIVE extract_deadline_from(_, _)
extract_deadline_from(text, n) ==
    IF n > Len(deadline_patterns) THEN PyNone
    ELSE group_or(re_search(text, 1, deadline_patterns[n]),
                  extract_deadline_from(text, n + 1))

extract_deadline(text) == extract_deadline_from(text, 1)

\* `not deadline_text`: None or the empty string
falsy(deadline_text) == deadline_text = PyNone \/ deadline_text = PyStr(<< >>)

\* the deadline of a task from the deadline text found for it
parsed_or_none(deadline_text, clock) ==
    IF falsy(deadline_text) THEN PyNone ELSE parse_deadline(deadline_text.s, clock)

\* the deadline text of the context, the one of the whole text without it
in_context_or(in_context, in_text) == IF falsy(in_context) THEN in_text ELSE in_context

\* _extract_deadline_for_task(text, task_description)
extract_deadline_for_task(text, task_description, clock) ==
    parsed_or_none(
        in_context_or(
            extract_deadline(get_context_around_text(text, task_description, ContextSize)),
            extract_deadline(text)),
        clock)

\* re.search(r'\b' + re.escape(indicator) + r'\b', task_context)
indicator_in(toks, indicator) ==
    \E i \in 1..Len(toks) :
        /\ toks[i] = indicator[1]
        /\ i + Len(indicator) - 1 <= Len(toks)
        /\ SubSeq(toks, i, i + Len(indicator) - 1) = indicator

NoTier == "none"

\* the first tier, from tier n on, that has an indicator in the context
RECURSIVE first_tier(_, _)
first_tier(task_context, n) ==
    IF n > Len(urgency_tiers) THEN NoTier
    ELSE IF \E ind \in urgency_indicators[urgency_tiers[n]] : indicator_in(task_context, ind)
    THEN urgency_tiers[n]
    ELSE first_tier(task_context, n + 1)

\* the end of _determine_task_priority, when no indicator is found
sender_priority(sender) ==
    IF sender \in DOMAIN sender_importance /\ sender_importance[sender] = "high"
    THEN "high" ELSE "medium"

tier_or(tier, other) == IF tier # NoTier THEN tier ELSE other

\* _determine_task_priority looking through the whole text, not the context
determine_task_priority_in_text(text, task_description, sender) ==
    tier_or(first_tier(text, 1), sender_priority(sender))

\* _determine_task_priority(text, task_description, sender)
determine_task_priority(text, task_description, sender) ==
    tier_or(first_tier(get_context_around_text(text, task_description, ContextSize), 1),
            sender_priority(sender))

\* the request words: the words of the direct requests and the verbs of the
\* other request phrases; the labels "action item:" and "follow-up:" and the
\* phrase "your task is to" hold none
RequestVerbs ==
    {"please", "kindly", "could you", "can you", "need", "want", "require", "assign",
     "assigning", "assigned", "waiting", "depend", "depending", "expecting", "expect"}

\* _contains_request(text): a question mark or a request verb
contains_request(text) ==
    \E i \in 1..Len(text) : text[i] = "?" \/ text[i] \in RequestVerbs

(***************************************************************************)
(* WorkloadManager.extract_tasks_from_email.                               *)
(***************************************************************************)
\* the non-empty descriptions the matches of one pattern give, in order
RECURSIVE descriptions_of(_)
descriptions_of(matches) ==
    IF matches = << >> THEN << >>
    ELSE (IF Head(matches).group # << >> THEN <<Head(matches).group>> ELSE << >>)
           \o descriptions_of(Tail(matches))

\* the descriptions of all patterns from pattern n on, in the order of the loops
RECURSIVE task_descriptions(_, _)
task_descriptions(text, n) ==
    IF n > Len(task_patterns) THEN << >>
    ELSE descriptions_of(re_finditer(text, 1, task_patterns[n]))
           \o task_descriptions(text, n + 1)

\* the task dict with the default of task_time_estimates.get(priority, 1.0)
\* as its estimate, as if the priority were never found in the table
task_with_default_estimate(em, index, task_description, deadline, priority) ==
    [id              |-> <<"task", em.id, index>>,
     description     |-> task_description,
     source_email_id |-> em.id,
     sender          |-> em.sender,
     date_received   |-> em.date,
     deadline        |-> deadline,
     priority        |-> priority,
     status          |-> "pending",
     estimated_time  |-> 60]

\* the task made for a matched description, the index-th of the list
task(em, index, task_description, deadline, priority) ==
    [id              |-> <<"task", em.id, index>>,
     description     |-> task_description,
     source_email_id |-> em.id,
     sender          |-> em.sender,
     date_received   |-> em.date,
     deadline        |-> deadline,
     priority        |-> priority,
     status          |-> "pending",
     estimated_time  |-> task_time_estimates[priority]]

pattern_task(em, text, index, task_description, clock) ==
    task(em, index, task_description,
         extract_deadline_for_task(text, task_description, clock),
         determine_task_priority(text, task_description, em.sender))

ReviewPrefix == "Review and respond to email:"

\* the generic task made when no pattern gave a task
generic_task(em, text) ==
    [id              |-> <<"task", em.id, 0>>,
     description     |-> <<ReviewPrefix>> \o em.subject,
     source_email_id |-> em.id,
     sender          |-> em.sender,
     date_received   |-> em.date,
     deadline        |-> extract_deadline(text),
     priority        |-> determine_task_priority(text, em.subject, em.sender),
     status          |-> "pending",
     estimated_time  |-> 30]

\* f"{subject}\n{body}"
email_text(em) == em.subject \o <<NL>> \o em.body

\* tasks_of without the test of _contains_request: the generic task for
\* every text that gave no description
tasks_of_without_request_test(em, text, descs, clock) ==
    IF descs = << >> THEN <<generic_task(em, text)>>
    ELSE [i \in 1..Len(descs) |-> pattern_task(em, text, i - 1, descs[i], clock)]

\* tasks_of without the test `not tasks`: the generic task added to the
\* tasks of the patterns
tasks_of_with_generic_added(em, text, descs, clock) ==
    [i \in 1..Len(descs) |-> pattern_task(em, text, i - 1, descs[i], clock)]
        \o (IF contains_request(text) THEN <<generic_task(em, text)>> ELSE << >>)

\* the tasks of the descriptions found, the generic task when there are none
\* and the text holds a request
tasks_of(em, text, descs, clock) ==
    IF descs = << >> /\ contains_request(text) THEN <<generic_task(em, text)>>
    ELSE [i \in 1..Len(descs) |-> pattern_task(em, text, i - 1, descs[i], clock)]

\* extract_tasks_from_email(email), run when the clock reads `clock`.  The
\* project and dependencies fields of a task are not modelled.
extract_tasks_from_email(em, clock) ==
    tasks_of(em, email_text(em), task_descriptions(email_text(em), 1), clock)

(***************************************************************************)
(* The inputs of the model.                                                *)
(***************************************************************************)
SeqsUpTo(S, n) == UNION {[1..k -> S] : k \in 0..n}

\* the tokens of the enumerated message bodies
BodyAlphabet == {"please", "report", ".", "?", NL}

\* deadline clauses that follow a request in a message
DeadlineClauses ==
    {<< >>, <<"by", "tomorrow">>, <<"by", "end", "of", "this", "week">>,
     <<"submit", "by", "friday">>, <<"submit", "by", "today", "tomorrow">>}
      \cup {<<"by", "next", w>> : w \in Weekdays}
      \cup {<<"within", n, u>> : n \in Numerals, u \in {"days", "weeks", "months"}}

\* what follows the deadline clause
Tails ==
    {<< >>, <<".">>, <<",", "report", "urgent", ".">>, <<".", PARA, "urgent">>}

\* messages made of a request, a deadline clause and a tail; the first of
\* them with the second tail is "Please send the report by tomorrow, this is
\* urgent."
ScenarioBodies ==
    {<<"please", "report">> \o d \o t : d \in DeadlineClauses, t \in Tails}
      \cup {<<"action", "item", ":", "report">> \o t : t \in Tails}
      \cup {<<"submit", "by", "friday", ":", "report", ".">>}

\* words of the critical, low and high tiers
TierWords == {"urgent", "optional", "important"}

\* a request followed by one or two urgency words of any tiers, inside the
\* request clause or after it
PriorityBodies ==
    {<<"please", "report">> \o sep \o w \o <<".">> :
        sep \in {<< >>, <<",">>},
        w \in {<<a>> : a \in TierWords} \cup {<<a, b>> : a, b \in TierWords}}

Subjects == {<<"report">>, <<"report", "?">>}

Senders == {"lead@corp", "peer@corp"}

\* the messages that can arrive: every short body over BodyAlphabet, the
\* scenario bodies under either subject, and the priority bodies from either
\* sender
Messages ==
    {[sender |-> "peer@corp", subject |-> <<"report">>, body |-> b] :
        b \in SeqsUpTo(BodyAlphabet, MaxBodyLen)}
      \cup {[sender |-> "peer@corp", subject |-> sj, body |-> b] :
               sj \in Subjects, b \in ScenarioBodies}
      \cup {[sender |-> s, subject |-> <<"report">>, body |-> b] :
               s \in Senders, b \in PriorityBodies}

\* the tokens of the enumerated deadline phrases
PhraseAlphabet == {"today", "tomorrow", "this", "next", "week", "month", "friday"}

\* phrases of every class, to be followed by a time of day
TimedPhrases ==
    {<< >>, <<"tomorrow">>, <<"this", "week">>, <<"within", "2", "days">>,
     <<"next", "friday">>, <<"friday">>, <<"2">>}

DeadlineTexts ==
    SeqsUpTo(PhraseAlphabet, MaxPhraseLen)
      \cup {<<"next", w>> : w \in Weekdays}
      \cup {<<"within", n, u>> : n \in Numerals, u \in Units}
      \cup {<<w>> : w \in Weekdays \cup Numerals}
      \cup {base \o <<"at", t>> : base \in TimedPhrases, t \in Times}

NoEmail == [id |-> "", sender |-> "", subject |-> << >>, body |-> << >>, date |-> 0]

NoResult == [text |-> << >>, clock |-> 0, deadline |-> PyNone]

(***************************************************************************)
(* ContextualLearningSystem: track_email_interaction and the importance of *)
(* senders.  Scores are Python floats; the model keeps them as exact       *)
(* multiples of 1/Scale, Scale being a common multiple of the divisors     *)
(* 50 + interaction_count that the learning rate takes.  The source file   *)
(* ends before _calculate_response_importance and                          *)
(* _calculate_priority_change: the factor they return is part of the       *)
(* interaction here, and every factor of the model is tried.               *)
(***************************************************************************)
\* calls of track_email_interaction in one run of the model
MaxInteractions == 3

RECURSIVE gcd(_, _)
gcd(a, b) == IF b = 0 THEN a ELSE gcd(b, a % b)

\* the least common multiple of first .. last
RECURSIVE lcm_of(_, _)
lcm_of(first, last) ==
    IF first > last THEN 1
    ELSE (first * lcm_of(first + 1, last)) \div gcd(first, lcm_of(first + 1, last))

\* self.learning_rate = 0.2 is learning_rate_tenths / 10
learning_rate_tenths == 2

\* the divisor of the learning rate grows by 1/50 per interaction
rate_divisor == 50

Scale == lcm_of(rate_divisor, rate_divisor + MaxInteractions - 1)

LearnedSenders == {"amy@corp", "bob@corp"}

\* _initialize_user_model: no interaction, no sender known
NewUserModel ==
    [interaction_count |-> 0,
     sender_importance |-> [s \in LearnedSenders |-> PyNone],
     sender_relationships |-> [s \in LearnedSenders |-> PyNone]]

\* the entry of a sender, created with score 0 and count 0 when it is missing
sender_data(model, sender) ==
    IF model.sender_importance[sender] = PyNone
    THEN [importance_score |-> 0, interaction_count |-> 0]
    ELSE model.sender_importance[sender]

\* importance_factor * effective_learning_rate, with
\* effective_learning_rate = 0.2 / (1 + interaction_count / 50)
score_step(importance_factor, interaction_count) ==
    importance_factor * learning_rate_tenths * (rate_divisor \div 10)
        * (Scale \div (rate_divisor + interaction_count))

\* the update of the score without its bounds
unbounded(score) == score

\* max(-10, min(10, new_score))
bounded(score) == Max(-10 * Scale, Min(10 * Scale, score))

abs(x) == IF x < 0 THEN -x ELSE x

\* _update_sender_relationship: the relationship of a score
relationship_of(importance_score) ==
    IF importance_score >= 7 * Scale THEN "vip"
    ELSE IF importance_score >= 4 * Scale THEN "important"
    ELSE IF importance_score >= 1 * Scale THEN "regular"
    ELSE IF importance_score >= -2 * Scale THEN "neutral"
    ELSE "low_priority"

new_score(data, importance_factor) ==
    bounded(data.importance_score
              + score_step(importance_factor, data.interaction_count))

\* _update_sender_importance
update_sender_importance(model, sender, importance_factor) ==
    [model EXCEPT
       !.sender_importance[sender] =
           [importance_score |-> new_score(sender_data(model, sender), importance_factor),
            interaction_count |-> sender_data(model, sender).interaction_count + 1],
       !.sender_relationships[sender] =
           IF abs(new_score(sender_data(model, sender), importance_factor)
                    - sender_data(model, sender).importance_score) > Scale
           THEN PyStr(relationship_of(new_score(sender_data(model, sender),
                                                importance_factor)))
           ELSE @]

\* a sender is given: metadata.get('sender') is truthy
has_sender(metadata) == metadata.sender # PyNone

\* _process_interaction: the branch of the action, and in it the call of
\* _update_sender_importance if its condition holds
process_interaction(model, action, metadata) ==
    IF action = "read"
    THEN (IF has_sender(metadata) /\ metadata.time_spent > 0
          THEN update_sender_importance(model, metadata.sender.s, metadata.time_spent)
          ELSE model)
    ELSE IF action = "reply"
    THEN (IF has_sender(metadata)
          THEN update_sender_importance(model, metadata.sender.s,
                                        metadata.importance_factor)
          ELSE model)
    ELSE IF action \in {"delete", "archive"}
    THEN (IF has_sender(metadata) /\ action = "delete" /\ ~metadata.read_before_action
          THEN update_sender_importance(model, metadata.sender.s, -5)
          ELSE model)
    ELSE IF action = "flag"
    THEN (IF has_sender(metadata)
          THEN update_sender_importance(model, metadata.sender.s,
                   IF metadata.flag_type = "important" THEN 5 ELSE 3)
          ELSE model)
    ELSE IF action = "prioritize"
    THEN (IF has_sender(metadata) /\ metadata.priorities_given
          THEN update_sender_importance(model, metadata.sender.s,
                                        metadata.importance_factor)
          ELSE model)
    ELSE model

\* track_email_interaction: the count of the model, then the processing
track_email_interaction(model, action, metadata) ==
    process_interaction([model EXCEPT !.interaction_count = @ + 1], action, metadata)

\* the interactions of the model
SendersGiven == {PyNone} \cup {PyStr(s) : s \in LearnedSenders}

\* seconds of reading: none, a glance, ten minutes
TimesSpent == {0, 4, 600}

\* the factors of a reply and of a change of priority
ImportanceFactors == {-8, 2, 8}

Metadata(sender, time_spent, importance_factor, read_before_action, flag_type,
         priorities_given) ==
    [sender |-> sender, time_spent |-> time_spent,
     importance_factor |-> importance_factor,
     read_before_action |-> read_before_action, flag_type |-> flag_type,
     priorities_given |-> priorities_given]

Interactions ==
    {[action |-> "read", metadata |-> Metadata(s, t, 0, FALSE, "important", FALSE)] :
        s \in SendersGiven, t \in TimesSpent}
    \cup {[action |-> "reply", metadata |-> Metadata(s, 0, f, FALSE, "important", FALSE)] :
        s \in SendersGiven, f \in ImportanceFactors}
    \cup {[action |-> a, metadata |-> Metadata(s, 0, 0, r, "important", FALSE)] :
        a \in {"delete", "archive"}, s \in SendersGiven, r \in BOOLEAN}
    \cup {[action |-> "flag", metadata |-> Metadata(s, 0, 0, FALSE, t, FALSE)] :
        s \in SendersGiven, t \in {"important", "follow_up"}}
    \cup {[action |-> "categorize", metadata |-> Metadata(s, 0, 0, FALSE, "important", FALSE)] :
        s \in SendersGiven}
    \cup {[action |-> "prioritize", metadata |-> Metadata(s, 0, f, FALSE, "important", g)] :
        s \in SendersGiven, f \in ImportanceFactors, g \in BOOLEAN}

(***************************************************************************)
(* The manager's tables, and the scheduling side: prioritize_tasks and     *)
(* get_workload_metrics.  The source file ends before these two methods;   *)
(* they follow the specification of the Workload Scheduler.                *)
(***************************************************************************)
\* self.priority_levels
priority_levels == [critical |-> 5, high |-> 4, medium |-> 3, low |-> 2, optional |-> 1]

\* self.daily_capacity, in minutes
daily_capacity == 480

\* the attributes WorkloadManager.__init__ sets
NewManager ==
    [priority_levels    |-> priority_levels,
     sender_importance  |-> sender_importance,
     task_patterns      |-> task_patterns,
     deadline_patterns  |-> deadline_patterns,
     urgency_indicators |-> urgency_indicators,
     project_keywords   |-> << >>,
     tasks              |-> << >>,
     daily_capacity     |-> daily_capacity,
     task_time_estimates |-> task_time_estimates]

\* the deadline d1 is strictly earlier than d2; a task without a resolved
\* deadline comes after every dated one
earlier(d1, d2) ==
    IF d1.py # "dict" THEN FALSE
    ELSE IF d2.py # "dict" THEN TRUE
    ELSE \/ d1.datetime[1] < d2.datetime[1]
         \/ /\ d1.datetime[1] = d2.datetime[1]
            /\ d1.datetime[2] * 60 + d1.datetime[3] < d2.datetime[2] * 60 + d2.datetime[3]

\* the ranking key of a is strictly smaller than the one of b: a higher
\* tier, or the same tier and an earlier deadline
ranks_before(a, b) ==
    \/ priority_levels[a.priority] > priority_levels[b.priority]
    \/ /\ priority_levels[a.priority] = priority_levels[b.priority]
       /\ earlier(a.deadline, b.deadline)

\* insert_ranked putting t in front of the tasks of equal key
RECURSIVE insert_before_equal(_, _)
insert_before_equal(t, ranked) ==
    IF ranked = << >> THEN <<t>>
    ELSE IF ~ranks_before(Head(ranked), t) THEN <<t>> \o ranked
    ELSE <<Head(ranked)>> \o insert_before_equal(t, Tail(ranked))

\* t put into a ranked list after every task that t does not rank before
RECURSIVE insert_ranked(_, _)
insert_ranked(t, ranked) ==
    IF ranked = << >> THEN <<t>>
    ELSE IF ranks_before(t, Head(ranked)) THEN <<t>> \o ranked
    ELSE <<Head(ranked)>> \o insert_ranked(t, Tail(ranked))

\* the first n tasks of ts, ranked
RECURSIVE ranked_prefix(_, _)
ranked_prefix(ts, n) ==
    IF n = 0 THEN << >> ELSE insert_ranked(ts[n], ranked_prefix(ts, n - 1))

\* the task has a deadline
has_deadline(t) == t.deadline.py = "dict"

\* prioritize_tasks ranking the tasks with a deadline only
prioritize_dated_tasks(ts) ==
    ranked_prefix(SelectSeq(ts, has_deadline), Len(SelectSeq(ts, has_deadline)))

\* prioritize_tasks(tasks): a stable sort by tier, then deadline
prioritize_tasks(ts) == ranked_prefix(ts, Len(ts))

\* the estimated minutes of the first n tasks of ts
RECURSIVE cumulative(_, _)
cumulative(ts, n) == IF n = 0 THEN 0 ELSE cumulative(ts, n - 1) + ts[n].estimated_time

\* at_risk flagging the task that crosses the capacity and none after it
only_crossing_at_risk(ranked, capacity) ==
    [i \in DOMAIN ranked |->
        /\ cumulative(ranked, i) > capacity
        /\ cumulative(ranked, i - 1) <= capacity]

\* the tasks at risk of overflow, by place in the ranked list: those at
\* which the cumulative estimate exceeds the capacity
at_risk(ranked, capacity) ==
    [i \in DOMAIN ranked |-> cumulative(ranked, i) > capacity]

\* the deadline of the task is a date of today
is_due(t, today) == t.deadline.py = "dict" /\ t.deadline.date = ord2ymd(today)

\* get_workload_metrics counting the tasks with a deadline as the total
metrics_of_dated_tasks(ts, today) ==
    [total_tasks     |-> Len(SelectSeq(ts, has_deadline)),
     priority_counts |-> [p \in DOMAIN priority_levels |->
                            Cardinality({i \in DOMAIN ts : ts[i].priority = p})],
     due_today       |-> Cardinality({i \in DOMAIN ts : is_due(ts[i], today)}),
     total_estimated |-> cumulative(ts, Len(ts))]

\* get_workload_metrics(tasks), the clock reading `today`
get_workload_metrics(ts, today) ==
    [total_tasks     |-> Len(ts),
     priority_counts |-> [p \in DOMAIN priority_levels |->
                            Cardinality({i \in DOMAIN ts : ts[i].priority = p})],
     due_today       |-> Cardinality({i \in DOMAIN ts : is_due(ts[i], today)}),
     total_estimated |-> cumulative(ts, Len(ts))]

\* the snapshot of one scheduling pass over ts
scheduled(ts, capacity, today) ==
    [tasks    |-> ts,
     capacity |-> capacity,
     today    |-> today,
     ranked   |-> prioritize_tasks(ts),
     metrics  |-> get_workload_metrics(ts, today),
     at_risk  |-> at_risk(prioritize_tasks(ts), capacity)]

NoSchedule == scheduled(<< >>, daily_capacity, 0)

\* longest list of tasks handed to the scheduler
MaxTasks == 3

\* the kinds of task handed to the scheduler: a tier, and the days from
\* today to the deadline of a dated task
TaskKinds ==
    {[priority |-> "critical", dated |-> TRUE, days |-> 1],
     [priority |-> "critical", dated |-> FALSE, days |-> 0],
     [priority |-> "high", dated |-> TRUE, days |-> 0],
     [priority |-> "high", dated |-> TRUE, days |-> 1],
     [priority |-> "optional", dated |-> TRUE, days |-> 0]}

\* the tasks of the kinds, in extraction order
task_list(kinds, today) ==
    [i \in DOMAIN kinds |->
        task([id |-> "m1", sender |-> "peer@corp", date |-> today], i - 1,
             <<"report">>,
             IF ~kinds[i].dated THEN PyNone
             ELSE make_deadline(today + kinds[i].days, EndOfBusiness, <<"tomorrow">>),
             kinds[i].priority)]

\* the lists of tasks handed to the scheduler
TaskLists == SeqsUpTo(TaskKinds, MaxTasks)

\* the daily capacities the scheduler is run with: the default and a
\* quarter of it
Capacities == {daily_capacity, daily_capacity \div 4}

(***************************************************************************)
(* The state machine.                                                      *)
(***************************************************************************)
Init ==
    /\ now = FirstDay
    /\ email = NoEmail
    /\ tasks = << >>
    /\ result = NoResult
    /\ phase = "idle"
    /\ manager = NewManager
    /\ schedule = NoSchedule
    /\ thread_running = FALSE
    /\ notification_thread = PyNone
    /\ notification_queue = << >>
    /\ threads = << >>
    /\ processed = << >>
    /\ appended = 0
    /\ caller = "ready"
    /\ returned = NoCall
    /\ user_model = NewUserModel
    /\ interaction = PyNone
    /\ processed_emails = << >>
    /\ last_fetch_time = PyNone
    /\ service = FALSE
    /\ session = [c \in Clients |-> FALSE]
    /\ http_response = NoResponse

\* the clock moves to the next day
Tick ==
    /\ now < FirstDay + MaxDay
    /\ \/ phase = "idle"
       \/ phase \in {"received", "extracted"} /\ now - email.date < MaxDelay
    /\ now' = now + 1
    /\ UNCHANGED <<email, tasks, result, phase, manager, schedule, service_vars>>

\* a message arrives; its date is the time of receipt
Receive(m) ==
    /\ phase = "idle"
    /\ email' = [id |-> "m1", sender |-> m.sender, subject |-> m.subject,
                 body |-> m.body, date |-> now]
    /\ phase' = "received"
    /\ UNCHANGED <<now, tasks, result, manager, schedule, service_vars>>

\* extract_tasks_from_email keeping the tasks it found in self.tasks
ExtractAndKeep ==
    /\ phase \in {"received", "extracted"}
    /\ tasks' = extract_tasks_from_email(email, now)
    /\ manager' = [manager EXCEPT !.tasks = tasks']
    /\ phase' = "extracted"
    /\ UNCHANGED <<now, email, result, schedule, service_vars>>

\* the application calls extract_tasks_from_email on the message, for the
\* first time or again
Extract ==
    /\ phase \in {"received", "extracted"}
    /\ tasks' = extract_tasks_from_email(email, now)
    /\ phase' = "extracted"
    /\ UNCHANGED <<now, email, result, manager, schedule, service_vars>>

\* the application takes the tasks of the message away and goes on to the
\* next message
Return ==
    /\ phase = "extracted"
    /\ email' = NoEmail
    /\ tasks' = << >>
    /\ phase' = "idle"
    /\ UNCHANGED <<now, result, manager, schedule, service_vars>>

\* a call of _parse_deadline on a deadline text
ParseDeadline(deadline_text) ==
    /\ phase = "idle"
    /\ result' = [text |-> deadline_text, clock |-> now,
                  deadline |-> parse_deadline(deadline_text, now)]
    /\ phase' = "parsed"
    /\ UNCHANGED <<now, email, tasks, manager, schedule, service_vars>>

\* the application ranks a list of tasks and computes its metrics
Schedule(kinds, capacity) ==
    /\ phase = "idle"
    /\ schedule' = scheduled(task_list(kinds, now), capacity, now)
    /\ phase' = "scheduled"
    /\ UNCHANGED <<now, email, tasks, result, manager, service_vars>>

Next ==
    \/ Tick
    \/ phase = "idle" /\ \E m \in Messages : Receive(m)
    \/ Extract
    \/ Return
    \/ phase = "idle" /\ \E deadline_text \in DeadlineTexts :
                            ParseDeadline(deadline_text)
    \/ phase = "idle" /\ \E kinds \in TaskLists, capacity \in Capacities :
                            Schedule(kinds, capacity)

Spec == Init /\ [][Next]_vars

(***************************************************************************)
(* Properties.                                                             *)
(***************************************************************************)
\* the text the extraction works on, of the message in hand
text_in_hand == email_text(email)

\* a deadline dict's date, as an ordinal
ordinal_of(deadline) ==
    ymd2ord(deadline.date.year, deadline.date.month, deadline.date.day)

\* "Please send the report by tomorrow, this is urgent."
UrgentByTomorrow == <<"please", "report", "by", "tomorrow", ",", "report", "urgent", ".">>

\* C1: processing a message whose body is "Please send the report by
\* tomorrow, this is urgent." yields exactly one task, of priority critical,
\* whose deadline is the day after the message was received (not the day
\* after it is processed), at 17:00.
C1_DayAfterReceipt ==
    (phase = "extracted" /\ email.body = UrgentByTomorrow)
        => /\ Len(tasks) = 1
           /\ tasks[1].priority = "critical"
           /\ tasks[1].deadline.py = "dict"
           /\ ordinal_of(tasks[1].deadline) = email.date + 1
           /\ tasks[1].deadline.time = EndOfBusiness

\* the deadlines of a list of tasks
deadlines(ts) == [i \in DOMAIN ts |-> ts[i].deadline]

\* C2: resolving the deadlines of one message is deterministic in the text
\* and the reference time: extracting again from the same message gives the
\* same deadlines, whatever the wall clock reads at the call.
C2_SameMessageSameDeadlines ==
    [][(phase = "extracted" /\ phase' = "extracted" /\ email' = email)
          => deadlines(tasks') = deadlines(tasks)]_vars

\* the row of a request phrase stands at token i of the text, with the colon
\* of a label right after it
request_phrase_at(text, i, pat, pos) ==
    /\ pos # << >>
    /\ pat.colon = "attached"
          => /\ pos[Len(pos)] + 1 <= Len(text)
             /\ text[pos[Len(pos)] + 1] = ":"

\* the text holds one of the request-indicator phrases of the task patterns
has_request_phrase(text) ==
    \E n \in DOMAIN task_patterns :
        /\ task_patterns[n].colon # "lazy"
        /\ \E a \in DOMAIN task_patterns[n].alts, i \in DOMAIN text :
              request_phrase_at(text, i, task_patterns[n],
                                word_positions(text, i, task_patterns[n].alts[a].words))

\* C3: every message whose subject and body hold a request-indicator
\* phrase yields at least one task, whether or not a terminator follows the
\* request clause.
C3_RequestPhraseGivesTask ==
    (phase = "extracted" /\ has_request_phrase(text_in_hand)) => Len(tasks) >= 1

\* no task pattern matches the text
no_pattern_matches(text) ==
    \A n \in DOMAIN task_patterns : ~re_search(text, 1, task_patterns[n]).ok

\* C4: a message that matches no task pattern and holds no generic request
\* marker (no question mark, no request verb) yields the empty list.
C4_NoMarkerNoTask ==
    (/\ phase = "extracted"
     /\ no_pattern_matches(text_in_hand)
     /\ ~contains_request(text_in_hand))
        => tasks = << >>

\* C4 witness: a message with a terminated sentence, but no pattern match
\* and no marker, was processed and gave no task
C4_Witness ==
    /\ phase = "extracted"
    /\ has_word(email.body, "report")
    /\ has_word(email.body, ".")
    /\ no_pattern_matches(text_in_hand)
    /\ ~contains_request(text_in_hand)
    /\ tasks = << >>

\* the task is the generic "review and respond" task
is_fallback(t) == t.description # << >> /\ t.description[1] = ReviewPrefix

\* no match of a task pattern captured a non-empty description
no_pattern_task(text) ==
    \A n \in DOMAIN task_patterns :
        \A m \in {re_finditer(text, 1, task_patterns[n])[k] :
                      k \in DOMAIN re_finditer(text, 1, task_patterns[n])} :
            m.group = << >>

\* C5: the fallback task is in the result if and only if no pattern gave a
\* task and the text holds a generic request marker; the result is then
\* exactly that task, with index 0 and the subject as its description, and
\* a fallback task never stands with a pattern-derived task.
C5_FallbackIffNoPatternTask ==
    phase = "extracted"
        => /\ (\E i \in DOMAIN tasks : is_fallback(tasks[i]))
                <=> (no_pattern_task(text_in_hand) /\ contains_request(text_in_hand))
           /\ (\E i \in DOMAIN tasks : is_fallback(tasks[i]))
                => /\ Len(tasks) = 1
                   /\ tasks[1].id = <<"task", email.id, 0>>
                   /\ tasks[1].description = <<ReviewPrefix>> \o email.subject
           /\ ~(\E i, j \in DOMAIN tasks :
                    is_fallback(tasks[i]) /\ ~is_fallback(tasks[j]))

\* C5 witness: a request without terminator, so no pattern task, gave the
\* fallback task alone
C5_Witness ==
    /\ phase = "extracted"
    /\ has_request_phrase(text_in_hand)
    /\ no_pattern_task(text_in_hand)
    /\ contains_request(text_in_hand)
    /\ Len(tasks) = 1
    /\ is_fallback(tasks[1])

\* C6: every task of a result carries a structured deadline; when no
\* deadline phrase is found in the message the deadline is the default,
\* seven days after the reference time at 17:00, never unset and never raw
\* text.
C6_EveryTaskHasDeadline ==
    phase = "extracted"
        => \A i \in DOMAIN tasks :
              /\ tasks[i].deadline.py = "dict"
              /\ extract_deadline(text_in_hand) = PyNone
                    => /\ ordinal_of(tasks[i].deadline) = email.date + 7
                       /\ tasks[i].deadline.time = EndOfBusiness

\* the weekday of an ordinal, by name
weekday_name(ordinal) == WeekdayNames[weekday(ordinal) + 1]

\* a call of _parse_deadline returned a deadline dict
parsed_dict == phase = "parsed" /\ result.deadline.py = "dict"

\* days from the clock at the call to the date of the deadline returned
days_ahead == ordinal_of(result.deadline) - result.clock

\* C7: the phrase "next W" resolves to the first day of weekday W strictly
\* after the reference date: 1 to 7 days ahead, 7 exactly when the
\* reference date falls on W itself, at 17:00.  The reference date is the
\* one _parse_deadline anchors on, the clock at the call.
C7_NextWeekday ==
    (/\ phase = "parsed"
     /\ Len(result.text) = 2
     /\ result.text[1] = "next"
     /\ result.text[2] \in Weekdays)
        => /\ result.deadline.py = "dict"
           /\ days_ahead \in 1..7
           /\ weekday_name(ordinal_of(result.deadline)) = result.text[2]
           /\ days_ahead = 7 <=> weekday_name(result.clock) = result.text[2]
           /\ result.deadline.time = EndOfBusiness

\* C7 witness: "next friday" resolved on a Friday, to the Friday after
C7_Witness ==
    /\ parsed_dict
    /\ result.text = <<"next", "friday">>
    /\ weekday_name(result.clock) = "friday"
    /\ days_ahead = 7

\* C8 as stated: every deadline text with the word "tomorrow", also one
\* that holds "today" or "this week" as well, resolves to the day after
\* the reference date, at 17:00.
C8_AnyTextWithTomorrow ==
    (phase = "parsed" /\ has_word(result.text, "tomorrow"))
        => /\ result.deadline.py = "dict"
           /\ days_ahead = 1
           /\ result.deadline.time = EndOfBusiness

\* C8 amended: every deadline text with the word "tomorrow" and without
\* the word "today", also one that holds "this week" or another later
\* term, resolves to the day after the reference date, at 17:00.
C8_TomorrowWithoutToday ==
    (/\ phase = "parsed"
     /\ has_word(result.text, "tomorrow")
     /\ ~has_word(result.text, "today"))
        => /\ result.deadline.py = "dict"
           /\ days_ahead = 1
           /\ result.deadline.time = EndOfBusiness

\* C8 witness: a text with "tomorrow" and "this week" resolved to the next day
C8_Witness ==
    /\ parsed_dict
    /\ result.text = <<"tomorrow", "this", "week">>
    /\ days_ahead = 1

\* the deadline phrase _extract_deadline finds in the text is a "within N
\* <unit>" phrase: the "within" pattern matches and no pattern before it does
within_found(text) ==
    /\ \A k \in 1..3 : ~re_search(text, 1, deadline_patterns[k]).ok
    /\ re_search(text, 1, deadline_patterns[4]).ok

\* the days the "within N <unit>" phrase found in the text asks for:
\* N for days, 7 * N for weeks
within_days(text, i) ==
    int(text[after_space(text, i)])
        * (IF text[after_space(text, after_space(text, i))] \in {"week", "weeks"}
           THEN 7 ELSE 1)

\* the unit of the "within N <unit>" phrase found is days or weeks
within_days_or_weeks(text, i) ==
    text[after_space(text, after_space(text, i))] \in {"day", "days", "week", "weeks"}

\* C9: when the deadline phrase found in the message for a task is "within
\* N weeks" (or "within N days"), the deadline of the task is 7 * N (or N)
\* days after the reference date, at 17:00, through the whole path from the
\* message text to _parse_deadline.  The message is processed on the day
\* of its receipt, so that the reference date is not in question.
C9_WithinThroughExtraction ==
    (/\ phase = "extracted"
     /\ now = email.date
     /\ within_found(text_in_hand)
     /\ within_days_or_weeks(text_in_hand,
                             re_search(text_in_hand, 1, deadline_patterns[4]).start))
        => \A i \in DOMAIN tasks :
              ~is_fallback(tasks[i])
                 => /\ tasks[i].deadline.py = "dict"
                    /\ ordinal_of(tasks[i].deadline) - email.date
                          = within_days(text_in_hand,
                                        re_search(text_in_hand, 1,
                                                  deadline_patterns[4]).start)
                    /\ tasks[i].deadline.time = EndOfBusiness

\* the text holds "this week"
has_this_week(text) == search_words(text, 1, <<{"this"}, {"week"}>>) # 0

\* the deadline returned is the Friday 1 to 7 days after the clock at the
\* call, at 17:00
upcoming_friday ==
    /\ result.deadline.py = "dict"
    /\ weekday_name(ordinal_of(result.deadline)) = "friday"
    /\ days_ahead \in 1..7
    /\ weekday_name(result.clock) = "friday" => days_ahead = 7
    /\ result.deadline.time = EndOfBusiness

\* C10 as stated: every deadline phrase that contains "this week" resolves
\* to the upcoming Friday at 17:00, 1 to 7 days after the reference date, 7
\* when the reference date is a Friday.
C10_AnyPhraseWithThisWeek ==
    (phase = "parsed" /\ has_this_week(result.text)) => upcoming_friday

\* C10 amended: every deadline phrase that contains "this week" and neither
\* the word "today" nor the word "tomorrow" resolves to the upcoming Friday
\* at 17:00, 1 to 7 days after the reference date, 7 when the reference
\* date is a Friday.
C10_ThisWeekAlone ==
    (/\ phase = "parsed"
     /\ has_this_week(result.text)
     /\ ~has_word(result.text, "today")
     /\ ~has_word(result.text, "tomorrow"))
        => upcoming_friday

\* C10 witness: "this week" resolved on a Friday, to the Friday after
C10_Witness ==
    /\ parsed_dict
    /\ result.text = <<"this", "week">>
    /\ weekday_name(result.clock) = "friday"
    /\ days_ahead = 7

\* the times of day written in a deadline text
explicit_times(text) == select_tokens(text, Times)

\* C11: the resolved time is 17:00 when the deadline phrase holds no time
\* of day, and the time written in the phrase when it holds one ("tomorrow
\* at 3pm", a date at 00:00), for every class of phrase.
C11_ExplicitTimeKept ==
    phase = "parsed"
        => /\ result.deadline.py = "dict"
           /\ result.deadline.time
                 = IF explicit_times(result.text) = << >> THEN EndOfBusiness
                   ELSE TimesOfDay[explicit_times(result.text)[1]]

\* the context the priority of task t is read from: the window around its
\* description, around the subject for the generic task
priority_context(t) ==
    get_context_around_text(text_in_hand,
                            IF is_fallback(t) THEN email.subject ELSE t.description,
                            ContextSize)

\* the context holds an indicator phrase of the tier
has_indicator_of(context, tier) ==
    \E ind \in urgency_indicators[tier] : indicator_in(context, ind)

\* the tiers that have indicator phrases, in the order they are tried
IndicatorTiers == <<"critical", "high", "medium", "low">>

\* the places in IndicatorTiers of the tiers with a phrase in the context
indicated_tiers(context) ==
    {n \in 1..4 : has_indicator_of(context, IndicatorTiers[n])}

\* the priority is the tier of the least of the places, when there is one
is_first_of(places, priority) ==
    \A n \in places :
        (\A k \in places : n <= k) => priority = IndicatorTiers[n]

\* C12: the priority of a task is the first tier, in the order critical,
\* high, medium, low, that has an indicator phrase in the task's context; a
\* context with a critical phrase gives critical whatever phrases of other
\* tiers it holds.
C12_FirstTierWins ==
    phase = "extracted"
        => \A i \in DOMAIN tasks :
              is_first_of(indicated_tiers(priority_context(tasks[i])),
                          tasks[i].priority)

\* C12 witness: a task whose context holds a low phrase and then a critical
\* one is critical
C12_Witness ==
    /\ phase = "extracted"
    /\ \E i \in DOMAIN tasks :
          /\ has_indicator_of(priority_context(tasks[i]), "critical")
          /\ has_indicator_of(priority_context(tasks[i]), "low")
          /\ tasks[i].priority = "critical"
    /\ email.body = <<"please", "report", ",", "optional", "urgent", ".">>

C14_EffortOfOwnTier ==
    phase = "extracted"
        => \A i \in DOMAIN tasks :
              /\ tasks[i].priority \in DOMAIN task_time_estimates
              /\ tasks[i].estimated_time = task_time_estimates[tasks[i].priority]

\* C14 amended: every pattern-derived task has the estimated effort of its
\* own priority tier, the fallback task has 0.5 hours whatever its
\* priority, and priority and effort are always set.
C14_EffortOfTierOrReview ==
    phase = "extracted"
        => \A i \in DOMAIN tasks :
              /\ tasks[i].priority \in DOMAIN task_time_estimates
              /\ tasks[i].estimated_time
                    = IF is_fallback(tasks[i]) THEN 30
                      ELSE task_time_estimates[tasks[i].priority]

\* C14 witness: the one task of "Please send the report by tomorrow, this
\* is urgent." is critical and has 2 hours
C14_Witness ==
    /\ phase = "extracted"
    /\ email.body = UrgentByTomorrow
    /\ Len(tasks) = 1
    /\ ~is_fallback(tasks[1])
    /\ tasks[1].priority = "critical"
    /\ tasks[1].estimated_time = 120

\* the place of a tier in the order critical > high > medium > low > optional
tier_place(p) ==
    CHOOSE n \in 1..5 : <<"critical", "high", "medium", "low", "optional">>[n] = p

\* minutes from day 0 to a deadline
deadline_minutes(d) == (d.datetime[1] * 24 + d.datetime[2]) * 60 + d.datetime[3]

\* the deadlines of a and b are equal as ranking keys
same_deadline(a, b) ==
    IF a.deadline.py = "dict" /\ b.deadline.py = "dict"
    THEN deadline_minutes(a.deadline) = deadline_minutes(b.deadline)
    ELSE a.deadline.py # "dict" /\ b.deadline.py # "dict"

\* the key (tier, deadline, extraction order) of a is not greater than b's
key_in_order(a, b) ==
    \/ tier_place(a.priority) < tier_place(b.priority)
    \/ /\ a.priority = b.priority
       /\ \/ a.deadline.py = "dict" /\ b.deadline.py # "dict"
          \/ /\ a.deadline.py = "dict" /\ b.deadline.py = "dict"
             /\ deadline_minutes(a.deadline) < deadline_minutes(b.deadline)
          \/ same_deadline(a, b) /\ a.id[3] <= b.id[3]

\* C15: the ranked list is ordered by tier (critical first), then by
\* deadline ascending with the tasks without deadline after the dated ones
\* of their tier, then by extraction order: of two tasks a before b in the
\* output, a's key is not greater than b's, and tasks of equal tier and
\* deadline keep their input order.
C15_RankedByKey ==
    phase = "scheduled"
        => \A i, j \in DOMAIN schedule.ranked :
              i < j => key_in_order(schedule.ranked[i], schedule.ranked[j])

\* C15 witness: three tasks of one tier, two of them dated alike and handed
\* over after the undated one, are ranked with the dated ones first
C15_Witness ==
    /\ phase = "scheduled"
    /\ Len(schedule.tasks) = 3
    /\ \A i \in 1..3 : schedule.tasks[i].priority = "critical"
    /\ ~has_deadline(schedule.tasks[1])
    /\ has_deadline(schedule.tasks[2])
    /\ schedule.ranked = <<schedule.tasks[2], schedule.tasks[3], schedule.tasks[1]>>

\* the tasks of a list, as a set
members(ts) == {ts[i] : i \in DOMAIN ts}

minutes_up_to(i) == cumulative(schedule.ranked, i)

\* C17: the tasks flagged at risk are a suffix of the ranked list: the
\* first task at which the cumulative effort, in ranked order, exceeds the
\* daily capacity, and every task after it; no task is removed, and none
\* is flagged when the total does not exceed the capacity.
C17_OverflowFlagsSuffix ==
    phase = "scheduled"
        => /\ DOMAIN schedule.at_risk = DOMAIN schedule.ranked
           /\ Len(schedule.ranked) = Len(schedule.tasks)
           /\ \A i \in DOMAIN schedule.ranked :
                 schedule.at_risk[i]
                    <=> \E k \in 1..i : minutes_up_to(k) > schedule.capacity
           /\ minutes_up_to(Len(schedule.ranked)) <= schedule.capacity
                 => \A i \in DOMAIN schedule.ranked : ~schedule.at_risk[i]

\* C17 witness: of three tasks the second crosses the capacity; it and the
\* third are flagged, the first is not
C17_Witness ==
    /\ phase = "scheduled"
    /\ Len(schedule.ranked) = 3
    /\ minutes_up_to(1) <= schedule.capacity
    /\ minutes_up_to(2) > schedule.capacity
    /\ schedule.at_risk = <<FALSE, TRUE, TRUE>>

\* C18: the metrics agree with the list of tasks: total_tasks is its
\* length, the counts by priority add up to total_tasks, due_today is at
\* most total_tasks, and every count is zero for the empty list.
C18_MetricsConsistent ==
    phase = "scheduled"
        => /\ schedule.metrics.total_tasks = Len(schedule.tasks)
           /\ schedule.metrics.priority_counts["critical"]
                + schedule.metrics.priority_counts["high"]
                + schedule.metrics.priority_counts["medium"]
                + schedule.metrics.priority_counts["low"]
                + schedule.metrics.priority_counts["optional"]
                = schedule.metrics.total_tasks
           /\ schedule.metrics.due_today \in 0..schedule.metrics.total_tasks
           /\ schedule.tasks = << >>
                 => /\ schedule.metrics.total_tasks = 0
                    /\ schedule.metrics.due_today = 0
                    /\ \A p \in DOMAIN schedule.metrics.priority_counts :
                          schedule.metrics.priority_counts[p] = 0

\* C18 witness: three tasks, one undated and one due today, were counted
C18_Witness ==
    /\ phase = "scheduled"
    /\ schedule.metrics.total_tasks = 3
    /\ schedule.metrics.due_today = 1
    /\ \E i \in 1..3 : ~has_deadline(schedule.tasks[i])
    /\ schedule.metrics.priority_counts["critical"] = 2

\* no branch for a relative term, a "within" or a "next <weekday>" takes
\* the text: it goes to the date parser
is_free_form(text) ==
    /\ \A w \in {"today", "tomorrow"} : ~has_word(text, w)
    /\ \A n \in DOMAIN RelativeTerms : search_words(text, 1, RelativeTerms[n]) = 0
    /\ search_words(text, 1, WithinWords) = 0
    /\ search_words(text, 1, NextDayWords) = 0

\* a step of parsing the text fails: the date arithmetic of its branch
\* raises (a number too large), or the date parser finds no date in it
parsing_fails(text, clock) ==
    \/ resolve_branches(text, clock).raised
    \/ is_free_form(text) /\ parser_parse(text, clock).raised

\* C19: no exception leaves deadline parsing: every call returns a deadline
\* dict with the raw phrase unchanged in original_text, and when a step of
\* parsing fails (empty or unparseable phrase, overflowing number) the
\* deadline is the default, one week after the anchor date at 17:00.
C19_FailureGivesDefault ==
    phase = "parsed"
        => /\ result.deadline.py = "dict"
           /\ result.deadline.original_text = result.text
           /\ parsing_fails(result.text, result.clock)
                 => /\ days_ahead = 7
                    /\ result.deadline.time = EndOfBusiness

\* C19 witness: "within 4000000 days" overflows the date arithmetic and
\* resolves to the default
C19_Witness ==
    /\ parsed_dict
    /\ result.text = <<"within", "4000000", "days">>
    /\ parsing_fails(result.text, result.clock)
    /\ days_ahead = 7
    /\ result.deadline.original_text = <<"within", "4000000", "days">>

\* C20: extract_tasks_from_email has no side effect: a call (a step to
\* "extracted" in which the clock stands still) leaves the
\* message and the tables of the manager as they were, and its result is
\* the one of the message alone, whatever was processed before.
C20_ExtractionLeavesTables ==
    [][(phase \in {"received", "extracted"} /\ phase' = "extracted" /\ now' = now)
          => /\ manager' = manager
             /\ manager' = NewManager
             /\ email' = email
             /\ tasks' = extract_tasks_from_email(email, now)]_vars

\* C20 witness: a message gave tasks and the tables are as constructed
C20_Witness ==
    /\ phase = "extracted"
    /\ Len(tasks) >= 1
    /\ manager = NewManager
    /\ manager.tasks = << >>

\* C23: the phrase "next week" resolves to the Wednesday of the calendar
\* week (Monday to Sunday) after the week of the reference date, at 17:00:
\* a day after the Sunday that ends the reference date's own week.
C23_NextWeekWednesday ==
    (phase = "parsed" /\ result.text = <<"next", "week">>)
        => /\ result.deadline.py = "dict"
           /\ weekday_name(ordinal_of(result.deadline)) = "wednesday"
           /\ ordinal_of(result.deadline) > result.clock - weekday(result.clock) + 6
           /\ ordinal_of(result.deadline) = result.clock - weekday(result.clock) + 9
           /\ result.deadline.time = EndOfBusiness

(***************************************************************************)
(* EmailRetriever (src/email_retriever.py).  The Gmail service is the      *)
(* environment: the listing call returns the listed messages or raises     *)
(* HttpError, and so does the retrieval of each message.                   *)
(***************************************************************************)
\* longest listing returned by the service
MaxListing == 3

\* messages retrieved between two pauses.  email_retriever.py imports the
\* name from config, and the config.py of src/ does not define it; any
\* positive number gives the same emails.
BATCH_SIZE == 2

\* _parse_email_message: the email of a retrieved message keeps its id
parse_email_message(message) == [id |-> message.id]

\* _get_email_details with `break` in place of `continue`
RECURSIVE get_email_details_until_error(_)
get_email_details_until_error(message_list) ==
    IF message_list = << >> \/ Head(message_list).get = "HttpError" THEN << >>
    ELSE <<parse_email_message(Head(message_list))>>
            \o get_email_details_until_error(Tail(message_list))

\* _get_email_details: the emails of the messages of a batch, a message
\* whose retrieval raises HttpError left out
RECURSIVE get_email_details(_)
get_email_details(message_list) ==
    IF message_list = << >> THEN << >>
    ELSE (IF Head(message_list).get = "HttpError" THEN << >>
          ELSE <<parse_email_message(Head(message_list))>>)
            \o get_email_details(Tail(message_list))

\* the loop of get_emails over the batches, from message i on (i counts
\* from 1 here, from 0 in the code)
RECURSIVE email_list_from(_, _)
email_list_from(messages, i) ==
    IF i > Len(messages) THEN << >>
    ELSE get_email_details(SubSeq(messages, i, Min(i + BATCH_SIZE - 1, Len(messages))))
            \o email_list_from(messages, i + BATCH_SIZE)

\* get_emails: an HttpError of the listing call and an empty listing give []
get_emails(response) ==
    IF response.error = "HttpError" THEN << >>
    ELSE IF response.messages = << >> THEN << >>
    ELSE email_list_from(response.messages, 1)

\* the answers of the service: the listing call raises, or it lists up to
\* MaxListing messages, each of which can be retrieved or not
Responses ==
    {[error |-> "HttpError", messages |-> << >>]}
      \cup {[error |-> "none",
             messages |-> [i \in DOMAIN gets |-> [id |-> i, get |-> gets[i]]]] :
               gets \in SeqsUpTo({"ok", "HttpError"}, MaxListing)}

\* a call of get_emails
GetEmails(response) ==
    /\ phase = "idle"
    /\ result' = [response |-> response, emails |-> get_emails(response)]
    /\ phase' = "fetched"
    /\ UNCHANGED <<now, email, tasks, manager, schedule, service_vars>>

(***************************************************************************)
(* EmailCategorizer (src/email_categorizer.py).                            *)
(***************************************************************************)
\* PRIORITY_KEYWORDS.  email_categorizer.py imports the name from config,
\* and the config.py of src/ does not define it; the lists hold words of
\* the emails of test_determine_priority.
PRIORITY_KEYWORDS ==
    [high |-> <<"urgent", "asap">>, medium |-> <<"review">>, low |-> <<"newsletter">>]

important_domains == <<"boss.com", "ceo.com", "important.com">>

\* the characters of the body that are searched
BodyLimit == 1000

\* the senders of the model, each with the important domains that occur in
\* sender.lower()
DomainsIn ==
    ("amy@boss.com" :> {"boss.com"}) @@ ("AMY@CEO.COM" :> {"ceo.com"})
      @@ ("boss@example.com" :> {}) @@ ("news@list.org" :> {})

\* _is_important_sender
is_important_sender(sender) ==
    \E n \in 1..Len(important_domains) : important_domains[n] \in DomainsIn[sender]

\* str.lower() of a token
lower(tok) == IF tok = "URGENT" THEN "urgent" ELSE tok

\* text.lower()
lower_text(toks) == [i \in DOMAIN toks |-> lower(toks[i])]

\* email['body'].lower() if isinstance(email['body'], str) else ''
body_text(body) == IF body.py = "str" THEN lower_text(body.s) ELSE << >>

\* f"{subject} {snippet} {body[:1000]}"
priority_text(em) ==
    lower_text(em.subject) \o lower_text(em.snippet)
        \o slice(body_text(em.body), 1, 0, BodyLimit)

\* a keyword of the list is in the text
any_keyword_in(keywords, text) ==
    \E n \in 1..Len(keywords) : has_word(text, lower(keywords[n]))

\* the keyword loops of _determine_priority with the low list tried first
keyword_priority_low_first(text) ==
    IF any_keyword_in(PRIORITY_KEYWORDS.low, text) THEN "low"
    ELSE IF any_keyword_in(PRIORITY_KEYWORDS.high, text) THEN "high"
    ELSE "medium"

\* the keyword loops of _determine_priority: high, medium, low, and medium
\* when no list has a keyword in the text
keyword_priority(text) ==
    IF any_keyword_in(PRIORITY_KEYWORDS.high, text) THEN "high"
    ELSE IF any_keyword_in(PRIORITY_KEYWORDS.medium, text) THEN "medium"
    ELSE IF any_keyword_in(PRIORITY_KEYWORDS.low, text) THEN "low"
    ELSE "medium"

\* _determine_priority
determine_priority(em) ==
    IF is_important_sender(em.sender) THEN "high"
    ELSE keyword_priority(priority_text(em))

\* categorize_email: a copy of the email with the priority added; the
\* category, has_calendar_event and deadline fields are not modelled
categorize_email(em) == [priority |-> determine_priority(em)] @@ em

\* the words of the subjects, snippets and bodies of the model
CategorizerWords == {"report", "URGENT", "asap", "review", "newsletter"}

\* a body of n passages of 200 characters and then the words
RECURSIVE padded(_, _)
padded(n, words) == IF n = 0 THEN words ELSE <<PARA>> \o padded(n - 1, words)

\* the passages that fill the first 1000 characters of a body
FullPassages == BodyLimit \div TokenChars[PARA]

\* the emails handed to the categorizer
CategorizerEmails ==
    {[sender |-> s, subject |-> sj, snippet |-> sn, body |-> b] :
        s \in DOMAIN DomainsIn,
        sj \in {<<"report">>, <<"URGENT", "report">>, <<"newsletter">>},
        sn \in {<< >>, <<"review">>, <<"newsletter">>},
        b \in {PyNone}
                \cup {PyStr(padded(n, <<w>>)) : n \in {0, FullPassages - 1, FullPassages},
                                               w \in CategorizerWords}}

\* a call of categorize_email; the email passed in is read again after it
Categorize(em) ==
    /\ phase = "idle"
    /\ result' = [email |-> em, categorized |-> categorize_email(em)]
    /\ phase' = "categorized"
    /\ UNCHANGED <<now, email, tasks, manager, schedule, service_vars>>

(***************************************************************************)
(* ActionDetector.propose_calendar_event (src/action_detector.py).         *)
(***************************************************************************)
\* the default time of a proposal, 10:00 AM
DefaultTime == [hour |-> 10, minute |-> 0]

\* a datetime on the day of the ordinal
PyDate(ordinal) == [py |-> "datetime", ordinal |-> ordinal]

\* the branches for the date of the event, in the order of the if/elif
\* chain; None when the chain assigns nothing
relative_date(date, clock) ==
    IF has_word(date, "tomorrow") THEN PyDate(clock + 1)
    ELSE IF search_words(date, 1, <<{"day"}, {"after"}, {"tomorrow"}>>) # 0
    THEN PyDate(clock + 2)
    ELSE IF has_word(date, "next")
    THEN (IF search_words(date, 1, NextDayWords) # 0
          THEN PyDate(clock + zero_is_week(
                   (day_map(word_after(date, search_words(date, 1, NextDayWords)))
                      - weekday(clock)) % 7))
          ELSE PyNone)
    ELSE IF parser_parse(date, clock).raised THEN PyDate(clock + 1)
    ELSE PyDate(parser_parse(date, clock).ordinal)

\* event_date: tomorrow when the event has no date
event_date(date, clock) ==
    IF falsy(date) THEN PyDate(clock + 1) ELSE relative_date(date.s, clock)

\* hour and minute of the event: 10:00 when it has no time or one that does
\* not parse
event_time(time) ==
    IF falsy(time) THEN DefaultTime
    ELSE IF Len(time.s) = 1 /\ time.s[1] \in Times THEN TimesOfDay[time.s[1]]
    ELSE DefaultTime

\* event_date.strftime('%Y-%m-%d %H:%M') if event_date else None
start_time(date, time) ==
    IF date.py = "None" THEN PyNone
    ELSE [py |-> "str", ordinal |-> date.ordinal, hour |-> time.hour,
          minute |-> time.minute]

\* propose_calendar_event(email), called when the clock reads `clock`
propose_calendar_event(calendar_events, clock) ==
    IF calendar_events = << >> THEN PyNone
    ELSE [py |-> "dict",
          start_time |-> start_time(event_date(calendar_events[1].date, clock),
                                    event_time(calendar_events[1].time))]

\* the dates of the calendar events of the model
EventDates ==
    {PyNone, PyStr(<< >>), PyStr(<<"tomorrow">>), PyStr(<<"day", "after", "tomorrow">>),
     PyStr(<<"next", "week">>), PyStr(<<"friday">>), PyStr(<<"report">>)}
      \cup {PyStr(<<"next", w>>) : w \in Weekdays}

\* their times
EventTimes == {PyNone, PyStr(<<"3pm">>), PyStr(<<"report">>)}

\* the lists of calendar events of an email: none, or one event
EventLists ==
    {<< >>} \cup {<<[date |-> d, time |-> t]>> : d \in EventDates, t \in EventTimes}

\* a call of propose_calendar_event
Propose(calendar_events) ==
    /\ phase = "idle"
    /\ result' = [calendar_events |-> calendar_events, clock |-> now,
                  proposal |-> propose_calendar_event(calendar_events, now)]
    /\ phase' = "proposed"
    /\ UNCHANGED <<now, email, tasks, manager, schedule, service_vars>>

(***************************************************************************)
(* ProactiveNotificationSystem: the settings and _process_notification.    *)
(* The source file ends inside _is_time_between; that comparison and the   *)
(* four methods _process_notification calls after it (_deliver_notification,*)
(* _store_delayed_notification, _add_to_history, _update_stats) are        *)
(* modelled by their effect: the method, the store, the history and the    *)
(* statistics each record the notification they were handed.               *)
(***************************************************************************)
\* a time of day in minutes, as strptime('%H:%M') orders it
minutes(time) == time.hour * 60 + time.minute

\* the quiet window of the default settings, 22:00 to 08:00
quiet_hours(enabled) ==
    [enabled |-> enabled, start |-> [hour |-> 22, minute |-> 0],
     end |-> [hour |-> 8, minute |-> 0]]

\* the settings of _initialize_settings after update_settings has set the
\* switches: every type but 'digest' has a 'quiet_hours' entry
settings_with(enabled, type_enabled, global_quiet, type_quiet, email_enabled) ==
    [enabled |-> enabled,
     notification_types |->
         ("urgent_emails" :> [enabled |-> type_enabled,
                              delivery_method |-> <<"web", "email">>,
                              quiet_hours |-> quiet_hours(type_quiet)])
      @@ ("digest" :> [enabled |-> type_enabled,
                       delivery_method |-> <<"web", "email">>]),
     delivery_methods |-> [web |-> [enabled |-> TRUE],
                           email |-> [enabled |-> email_enabled],
                           mobile |-> [enabled |-> FALSE]],
     global_quiet_hours |-> quiet_hours(global_quiet),
     workdays |-> [d \in 0..6 |-> d < 5]]

default_settings == settings_with(TRUE, TRUE, FALSE, FALSE, TRUE)

\* _is_time_between on an overnight window taken as a window within one day
is_time_between_same_day(current, start, end) ==
    minutes(start) <= minutes(current) /\ minutes(current) <= minutes(end)

\* _is_time_between: an overnight window (start after end) runs over midnight
is_time_between(current, start, end) ==
    IF minutes(start) > minutes(end)
    THEN minutes(current) >= minutes(start) \/ minutes(current) <= minutes(end)
    ELSE minutes(start) <= minutes(current) /\ minutes(current) <= minutes(end)

in_window(quiet, time) ==
    quiet.enabled /\ is_time_between(time, quiet.start, quiet.end)

KeyError == [raised |-> TRUE]

Returned(value) == [raised |-> FALSE, value |-> value]

\* _is_quiet_hours at the clock's day and time of day; the subscript
\* ['quiet_hours'] raises KeyError for a type that has no such entry
is_quiet_hours(settings, notification_type, clock, time) ==
    IF in_window(settings.global_quiet_hours, time) THEN Returned(TRUE)
    ELSE IF "quiet_hours" \notin DOMAIN settings.notification_types[notification_type]
    THEN KeyError
    ELSE IF in_window(settings.notification_types[notification_type].quiet_hours, time)
    THEN Returned(TRUE)
    ELSE IF ~settings.workdays[weekday(clock)] THEN Returned(TRUE)
    ELSE Returned(FALSE)

\* the methods of the type that are enabled, in the order of the list
RECURSIVE enabled_methods(_, _)
enabled_methods(settings, delivery_methods) ==
    IF delivery_methods = << >> THEN << >>
    ELSE (IF settings.delivery_methods[Head(delivery_methods)].enabled
          THEN <<Head(delivery_methods)>> ELSE << >>)
         \o enabled_methods(settings, Tail(delivery_methods))

\* what a call of _process_notification did
Outcome(raised, delivered, history, stored, notification) ==
    [raised |-> raised, delivered |-> delivered, history |-> history,
     stats |-> history, stored |-> stored, notification |-> notification]

Nothing(notification) == Outcome(FALSE, << >>, FALSE, FALSE, notification)

\* the delivery after the quiet-hours test
deliver(settings, notification) ==
    Outcome(FALSE,
            enabled_methods(settings,
                settings.notification_types[notification.type].delivery_method),
            TRUE, FALSE, notification)

\* the delayed notification handed to _store_delayed_notification
delay(notification) ==
    Outcome(FALSE, << >>, FALSE, TRUE, [notification EXCEPT !.delayed = TRUE])

\* _process_notification with the quiet-hours test left out
process_notification_at_once(settings, notification, clock, time) ==
    IF ~settings.enabled THEN Nothing(notification)
    ELSE IF notification.type \notin DOMAIN settings.notification_types
            \/ ~settings.notification_types[notification.type].enabled
    THEN Nothing(notification)
    ELSE deliver(settings, notification)

\* _process_notification
process_notification(settings, notification, clock, time) ==
    IF ~settings.enabled THEN Nothing(notification)
    ELSE IF notification.type \notin DOMAIN settings.notification_types
            \/ ~settings.notification_types[notification.type].enabled
    THEN Nothing(notification)
    ELSE IF is_quiet_hours(settings, notification.type, clock, time).raised
    THEN Outcome(TRUE, << >>, FALSE, FALSE, notification)
    ELSE IF is_quiet_hours(settings, notification.type, clock, time).value
            /\ notification.urgency # "critical"
    THEN delay(notification)
    ELSE deliver(settings, notification)

\* the settings, notifications and times of day of the model
SettingsOfModel ==
    {settings_with(e, t, g, q, m) : e \in BOOLEAN, t \in BOOLEAN, g \in BOOLEAN,
                                    q \in BOOLEAN, m \in BOOLEAN}

NotificationTypes == {"urgent_emails", "digest", "reminder"}

Notifications ==
    {[type |-> t, urgency |-> u, delayed |-> FALSE] :
        t \in NotificationTypes, u \in {"critical", "normal"}}

ClockTimes ==
    {[hour |-> 7, minute |-> 30], [hour |-> 8, minute |-> 0],
     [hour |-> 12, minute |-> 0], [hour |-> 22, minute |-> 0],
     [hour |-> 23, minute |-> 15]}

\* a call of _process_notification
ProcessNotification(settings, notification, time) ==
    /\ phase = "idle"
    /\ result' = [settings |-> settings, notification |-> notification,
                  clock |-> now, time |-> time,
                  outcome |-> process_notification(settings, notification, now, time)]
    /\ phase' = "processed"
    /\ UNCHANGED <<now, email, tasks, manager, schedule, service_vars>>

(***************************************************************************)
(* The calls of the services around the workload manager.                  *)
(***************************************************************************)
NextCalls ==
    \/ Tick
    \/ phase = "idle" /\ \E response \in Responses : GetEmails(response)
    \/ phase = "idle" /\ \E em \in CategorizerEmails : Categorize(em)
    \/ phase = "idle" /\ \E calendar_events \in EventLists : Propose(calendar_events)
    \/ phase = "idle" /\ \E settings \in SettingsOfModel, notification \in Notifications,
                            time \in ClockTimes :
                           ProcessNotification(settings, notification, time)

SpecCalls == Init /\ [][NextCalls]_vars

\* the retrieval of the message succeeded
retrieved(message) == message.get = "ok"

\* the ids of a list of messages or emails
ids_of(ms) == [i \in DOMAIN ms |-> ms[i].id]

\* C21: get_emails returns exactly the listed messages whose retrieval
\* succeeded, in listing order: a message whose retrieval raises HttpError
\* is skipped, the result is never longer than the listing, and an
\* HttpError of the listing call or an empty listing gives the empty list.
C21_ListedAndRetrieved ==
    phase = "fetched"
        => /\ ids_of(result.emails)
                = ids_of(SelectSeq(result.response.messages, retrieved))
           /\ Len(result.emails) <= Len(result.response.messages)
           /\ (result.response.error = "HttpError" \/ result.response.messages = << >>)
                 => result.emails = << >>

\* C21 witness: of three listed messages the second is not retrieved, and
\* the first and the third are returned
C21_Witness ==
    /\ phase = "fetched"
    /\ ids_of(result.response.messages) = <<1, 2, 3>>
    /\ ~retrieved(result.response.messages[2])
    /\ ids_of(result.emails) = <<1, 3>>

\* the list of keywords of the tier has a keyword in the text searched
tier_in_text(em, tier) == any_keyword_in(PRIORITY_KEYWORDS[tier], priority_text(em))

\* the first of high, medium and low with a keyword in the text; medium
\* when there is none
first_keyword_tier(em) ==
    IF tier_in_text(em, "high") THEN "high"
    ELSE IF tier_in_text(em, "medium") THEN "medium"
    ELSE IF tier_in_text(em, "low") THEN "low"
    ELSE "medium"

\* C22: the priority of a categorized email is high for an important
\* sender whatever the text; otherwise the first of high, medium, low whose
\* list has a keyword in subject + snippet + first 1000 characters of the
\* body, and medium without any keyword.  The result is a new record: the
\* email passed in with the priority added, the email itself as it was.
C22_PriorityPrecedence ==
    phase = "categorized"
        => /\ is_important_sender(result.email.sender)
                 => result.categorized.priority = "high"
           /\ ~is_important_sender(result.email.sender)
                 => result.categorized.priority = first_keyword_tier(result.email)
           /\ \A f \in DOMAIN result.email : result.categorized[f] = result.email[f]
           /\ "priority" \notin DOMAIN result.email

\* C22 witness: a low keyword in the subject and a high keyword in the
\* body, from a sender of no important domain, give high
C22_Witness ==
    /\ phase = "categorized"
    /\ ~is_important_sender(result.email.sender)
    /\ result.email.subject = <<"newsletter">>
    /\ result.email.body = PyStr(<<"asap">>)
    /\ result.categorized.priority = "high"

\* the date of the first calendar event of the call is the phrase
event_date_is(phrase) ==
    /\ result.calendar_events # << >>
    /\ result.calendar_events[1].date = PyStr(phrase)

\* the proposal starts n days after the call
starts_ahead(n) ==
    /\ result.proposal.py = "dict"
    /\ result.proposal.start_time.py = "str"
    /\ result.proposal.start_time.ordinal = result.clock + n

\* the date of the first calendar event is missing or holds no date
no_event_date ==
    /\ result.calendar_events # << >>
    /\ \/ falsy(result.calendar_events[1].date)
       \/ /\ ~has_word(result.calendar_events[1].date.s, "tomorrow")
          /\ search_words(result.calendar_events[1].date.s, 1, NextDayWords) = 0
          /\ parser_parse(result.calendar_events[1].date.s, result.clock).raised

\* C24: propose_calendar_event resolves the date of the first calendar
\* event by phrase: "tomorrow" is the day after the call, "day after
\* tomorrow" two days after, "next <weekday>" the next day of that name 1
\* to 7 days ahead (7 when today is that weekday); without a date, or with
\* one that does not parse, it proposes tomorrow, without a time 10:00, and
\* without calendar events it returns None.
C24_RelativeDates ==
    phase = "proposed"
        => /\ result.calendar_events = << >> => result.proposal = PyNone
           /\ event_date_is(<<"tomorrow">>) => starts_ahead(1)
           /\ event_date_is(<<"day", "after", "tomorrow">>) => starts_ahead(2)
           /\ \A w \in Weekdays :
                 event_date_is(<<"next", w>>)
                    => starts_ahead(zero_is_week((day_map(w) - weekday(result.clock)) % 7))
           /\ no_event_date => starts_ahead(1)
           /\ (result.calendar_events # << >> /\ falsy(result.calendar_events[1].time))
                 => /\ result.proposal.start_time.py = "str"
                    /\ result.proposal.start_time.hour = 10
                    /\ result.proposal.start_time.minute = 0

\* the type of the processed notification is known and switched on, and so
\* are notifications as a whole
notification_enabled ==
    /\ result.settings.enabled
    /\ result.notification.type \in DOMAIN result.settings.notification_types
    /\ result.settings.notification_types[result.notification.type].enabled

\* the quiet hours of the claim: the global window, the window of the type if
\* it has one, or a day that is not a workday
during_quiet_hours ==
    \/ in_window(result.settings.global_quiet_hours, result.time)
    \/ /\ "quiet_hours" \in DOMAIN result.settings.notification_types[result.notification.type]
       /\ in_window(result.settings.notification_types[result.notification.type].quiet_hours,
                    result.time)
    \/ ~result.settings.workdays[weekday(result.clock)]

\* the call delivered the notification as it does outside quiet hours
delivered_in_full ==
    /\ result.outcome.delivered =
          enabled_methods(result.settings,
              result.settings.notification_types[result.notification.type].delivery_method)
    /\ result.outcome.history
    /\ result.outcome.stats

\* C27: _process_notification delivers a notification (to each enabled
\* method of its type, then history and statistics) only if notifications
\* are enabled as a whole and for its type; during quiet hours an enabled
\* notification that is not critical is neither delivered nor added to the
\* history but marked delayed and stored, and a critical one is delivered
\* as outside quiet hours.
C27_QuietHoursDelay ==
    phase = "processed" =>
        /\ (result.outcome.delivered # << >> \/ result.outcome.history)
              => notification_enabled
        /\ (notification_enabled /\ during_quiet_hours
                /\ result.notification.urgency # "critical")
              => /\ result.outcome.delivered = << >>
                 /\ ~result.outcome.history
                 /\ result.outcome.notification.delayed
                 /\ result.outcome.stored
        /\ (notification_enabled /\ during_quiet_hours
                /\ result.notification.urgency = "critical")
              => delivered_in_full

(***************************************************************************)
(* ProactiveNotificationSystem: the notification thread.  A worker thread  *)
(* is at the test of `while self.thread_running` ("test"), at the test of  *)
(* `while self.notification_queue` ("drain"), before pop(0) ("pop"), in    *)
(* time.sleep(1.0) ("sleep"), past the loop ("done"), or ended by an       *)
(* exception ("crashed"): _notification_worker has no try.  The steps of   *)
(* the threads interleave at these points.  The code that appends to the   *)
(* queue is past the end of the source file; it is a list.append.          *)
(***************************************************************************)
\* worker threads started in one run of the model
MaxThreads == 2
\* notifications appended in one run of the model
MaxNotifications == 3

\* the time of day at which the workers run
Noon == [hour |-> 12, minute |-> 0]

Thread(t) == [py |-> "Thread", id |-> t]

\* the threads that are inside the loop of _notification_worker
live_workers == {t \in 1..Len(threads) : threads[t] \in {"test", "drain", "pop", "sleep"}}

\* start_notification_thread
StartNotificationThread ==
    /\ caller = "ready"
    /\ IF thread_running
       THEN /\ returned' = Return_of("start", FALSE)
            /\ UNCHANGED <<thread_running, notification_thread, threads>>
       ELSE /\ Len(threads) < MaxThreads
            /\ thread_running' = TRUE
            /\ threads' = Append(threads, "test")
            /\ notification_thread' = Thread(Len(threads) + 1)
            /\ returned' = Return_of("start", TRUE)
    /\ UNCHANGED <<notification_queue, processed, appended, caller>>
    /\ UNCHANGED <<now, email, tasks, result, phase, manager, schedule, learn_vars, app_vars>>

\* stop_notification_thread up to the join
StopNotificationThread ==
    /\ caller = "ready"
    /\ IF ~thread_running
       THEN /\ returned' = Return_of("stop", FALSE)
            /\ UNCHANGED <<thread_running, caller>>
       ELSE /\ thread_running' = FALSE
            /\ caller' = "joining"
            /\ UNCHANGED returned
    /\ UNCHANGED <<notification_thread, notification_queue, threads, processed, appended>>
    /\ UNCHANGED <<now, email, tasks, result, phase, manager, schedule, learn_vars, app_vars>>

\* join(timeout=1.0) returns, the worker ended or not, and stop returns True
JoinReturns ==
    /\ caller = "joining"
    /\ notification_thread' = PyNone
    /\ returned' = Return_of("stop", TRUE)
    /\ caller' = "ready"
    /\ UNCHANGED <<thread_running, notification_queue, threads, processed, appended>>
    /\ UNCHANGED <<now, email, tasks, result, phase, manager, schedule, learn_vars, app_vars>>

\* a notification is appended to the queue
Enqueue(type) ==
    /\ appended < MaxNotifications
    /\ appended' = appended + 1
    /\ notification_queue' =
           Append(notification_queue,
                  [id |-> appended + 1, type |-> type, urgency |-> "normal",
                   delayed |-> FALSE])
    /\ UNCHANGED <<thread_running, notification_thread, threads, processed, caller,
                   returned>>
    /\ UNCHANGED <<now, email, tasks, result, phase, manager, schedule, learn_vars, app_vars>>

\* while self.thread_running
WorkerTest(t) ==
    /\ threads[t] = "test"
    /\ threads' = [threads EXCEPT ![t] = IF thread_running THEN "drain" ELSE "done"]
    /\ UNCHANGED <<thread_running, notification_thread, notification_queue, processed,
                   appended, caller, returned>>
    /\ UNCHANGED <<now, email, tasks, result, phase, manager, schedule, learn_vars, app_vars>>

\* while self.notification_queue; with the queue empty the worker goes on
\* to check the scheduled notifications and to sleep
WorkerDrain(t) ==
    /\ threads[t] = "drain"
    /\ threads' = [threads EXCEPT
                     ![t] = IF notification_queue # << >> THEN "pop" ELSE "sleep"]
    /\ UNCHANGED <<thread_running, notification_thread, notification_queue, processed,
                   appended, caller, returned>>
    /\ UNCHANGED <<now, email, tasks, result, phase, manager, schedule, learn_vars, app_vars>>

\* notification = self.notification_queue.pop(0), IndexError on an empty
\* list, and self._process_notification(notification)
WorkerPop(t) ==
    /\ threads[t] = "pop"
    /\ IF notification_queue = << >>
       THEN /\ threads' = [threads EXCEPT ![t] = "crashed"]
            /\ UNCHANGED <<notification_queue, processed>>
       ELSE /\ notification_queue' = Tail(notification_queue)
            /\ processed' = Append(processed,
                                   [id |-> Head(notification_queue).id,
                                    thread |-> Thread(t),
                                    notification_thread |-> notification_thread])
            /\ threads' = [threads EXCEPT
                             ![t] = IF process_notification(default_settings,
                                          Head(notification_queue), now, Noon).raised
                                    THEN "crashed" ELSE "drain"]
    /\ UNCHANGED <<thread_running, notification_thread, appended, caller, returned>>
    /\ UNCHANGED <<now, email, tasks, result, phase, manager, schedule, learn_vars, app_vars>>

\* time.sleep(1.0) is over
WorkerWakes(t) ==
    /\ threads[t] = "sleep"
    /\ threads' = [threads EXCEPT ![t] = "test"]
    /\ UNCHANGED <<thread_running, notification_thread, notification_queue, processed,
                   appended, caller, returned>>
    /\ UNCHANGED <<now, email, tasks, result, phase, manager, schedule, learn_vars, app_vars>>

\* a step of worker thread t
Worker(t) ==
    /\ t \in 1..Len(threads)
    /\ (WorkerTest(t) \/ WorkerDrain(t) \/ WorkerPop(t) \/ WorkerWakes(t))

NextNotify ==
    \/ StartNotificationThread
    \/ StopNotificationThread
    \/ JoinReturns
    \/ \E type \in {"urgent_emails", "digest"} : Enqueue(type)
    \/ \E t \in 1..MaxThreads : t \in 1..Len(threads) /\ WorkerTest(t)
    \/ \E t \in 1..MaxThreads : t \in 1..Len(threads) /\ WorkerDrain(t)
    \/ \E t \in 1..MaxThreads : t \in 1..Len(threads) /\ WorkerPop(t)
    \/ \E t \in 1..MaxThreads : t \in 1..Len(threads) /\ WorkerWakes(t)

SpecNotify == Init /\ [][NextNotify]_vars

\* the scheduler runs every thread that can take a step
SpecNotifyFair == SpecNotify /\ \A t \in 1..MaxThreads : WF_vars(Worker(t))

\* C25: whatever the calls of start and stop, at most one worker is inside
\* the loop of _notification_worker at any time, and a worker processes
\* nothing once the stop that ended it has returned: every call of
\* _process_notification is made by the thread that is the instance's
\* notification_thread.
C25_AtMostOneWorker ==
    /\ Cardinality(live_workers) <= 1
    /\ \A i \in 1..Len(processed) : processed[i].thread = processed[i].notification_thread

\* the ids handed to _process_notification, in the order of the calls
RECURSIVE ids_processed(_)
ids_processed(calls) ==
    IF calls = << >> THEN << >> ELSE <<Head(calls).id>> \o ids_processed(Tail(calls))

was_processed(id) == \E i \in 1..Len(processed) : processed[i].id = id

\* C26: while the notification thread is running every notification
\* appended to the queue is eventually handed to _process_notification,
\* and the notifications are processed once each in the order in which
\* they were appended.
C26_EveryNotificationProcessedInOrder ==
    /\ [](\A i, j \in 1..Len(processed) : i < j => processed[i].id < processed[j].id)
    /\ \A id \in 1..MaxNotifications :
          (appended >= id /\ thread_running) ~> (was_processed(id) \/ ~thread_running)

(***************************************************************************)
(* The learning system in use: calls of track_email_interaction.           *)
(***************************************************************************)
TrackEmailInteraction(tracked) ==
    /\ user_model.interaction_count < MaxInteractions
    /\ interaction' = tracked
    /\ user_model' = track_email_interaction(user_model, tracked.action, tracked.metadata)
    /\ UNCHANGED <<now, email, tasks, result, phase, manager, schedule, notify_vars, app_vars>>

NextLearn == \E tracked \in Interactions : TrackEmailInteraction(tracked)

SpecLearn == Init /\ [][NextLearn]_vars

\* the senders the model has an entry for
known_senders(model) == {s \in LearnedSenders : model.sender_importance[s] # PyNone}

\* the interaction carries an importance factor for the sender
carries_importance(tracked, sender) ==
    /\ tracked.metadata.sender = PyStr(sender)
    /\ \/ tracked.action = "read" /\ tracked.metadata.time_spent > 0
       \/ tracked.action \in {"reply", "flag"}
       \/ tracked.action = "delete" /\ ~tracked.metadata.read_before_action
       \/ tracked.action = "prioritize" /\ tracked.metadata.priorities_given

\* C28: after any calls of track_email_interaction every sender's
\* importance_score is within [-10, 10]; a call raises the sender's
\* interaction_count by one if it carries an importance factor for the
\* sender and leaves it alone otherwise; and the stored relationship of a
\* sender changes only in a call that moves the sender's score by more
\* than 1.
C28_ScoreBoundedCountExact ==
    /\ [](\A s \in known_senders(user_model) :
             /\ user_model.sender_importance[s].importance_score >= -10 * Scale
             /\ user_model.sender_importance[s].importance_score <= 10 * Scale)
    /\ [][\A s \in LearnedSenders :
             /\ sender_data(user_model', s).interaction_count
                  = sender_data(user_model, s).interaction_count
                      + (IF carries_importance(interaction', s) THEN 1 ELSE 0)
             /\ user_model'.sender_relationships[s] # user_model.sender_relationships[s]
                  => abs(sender_data(user_model', s).importance_score
                           - sender_data(user_model, s).importance_score) > Scale
          ]_learn_vars

\* a sender with two interactions or more stands at the upper bound as a
\* vip, after an interaction that carried an importance factor for it
C28_Witness ==
    \E s \in known_senders(user_model) :
        /\ user_model.sender_importance[s].importance_score = 10 * Scale
        /\ user_model.sender_importance[s].interaction_count >= 2
        /\ user_model.sender_relationships[s] = PyStr("vip")
        /\ carries_importance(interaction, s)

(***************************************************************************)
(* app.py: the routes of the web application.  A request is one action;    *)
(* the exceptions of the collaborators are inputs of the request.          *)
(***************************************************************************)
\* detect_actions(summarize_email(categorize_email(email))): the email
\* with the fields the three components add
email_with_actions(em) == [id |-> em.id, processed |-> TRUE]

\* the loop of fetch_emails over the first n emails
RECURSIVE process_emails(_, _)
process_emails(emails, n) ==
    IF n = 0 \/ emails = << >> THEN << >>
    ELSE <<email_with_actions(Head(emails))>> \o process_emails(Tail(emails), n - 1)

\* the ids of processed emails, in order
RECURSIVE email_ids(_)
email_ids(emails) ==
    IF emails = << >> THEN << >> ELSE <<Head(emails).id>> \o email_ids(Tail(emails))

\* the emails of the batch with the id
RECURSIVE emails_with_id(_, _)
emails_with_id(emails, email_id) ==
    IF emails = << >> THEN << >>
    ELSE (IF Head(emails).id = email_id THEN <<Head(emails)>> ELSE << >>)
            \o emails_with_id(Tail(emails), email_id)

\* /auth: gmail_auth.authenticate() builds the service, or raises when the
\* user does not grant access
Auth(client, granted) ==
    /\ IF granted
       THEN /\ service' = TRUE
            /\ session' = [session EXCEPT ![client] = TRUE]
            /\ http_response' = Response("/auth", client, "redirect", << >>, 0)
       ELSE /\ http_response' = Response("/auth", client, "error", << >>, 0)
            /\ UNCHANGED <<service, session>>
    /\ UNCHANGED <<processed_emails, last_fetch_time>>
    /\ UNCHANGED <<now, email, tasks, result, phase, manager, schedule, notify_vars,
                   learn_vars>>

\* /dashboard
Dashboard(client) ==
    /\ http_response' = Response("/dashboard", client,
                            IF session[client] THEN "page" ELSE "redirect", << >>, 0)
    /\ UNCHANGED <<processed_emails, last_fetch_time, service, session>>
    /\ UNCHANGED <<now, email, tasks, result, phase, manager, schedule, notify_vars,
                   learn_vars>>

\* /fetch_emails.  get_service authenticates when no service is built yet
\* (`granted`: the user grants access); `listing` is the answer of the mail
\* service to get_emails; `failing` is the position of the email whose
\* categorizing, summarizing or action detection raises (0: none does)
FetchEmails(client, granted, listing, failing) ==
    /\ IF ~service /\ ~granted
       THEN /\ http_response' = Response("/fetch_emails", client, "error", << >>, 0)
            /\ UNCHANGED <<processed_emails, last_fetch_time, service>>
       ELSE /\ service' = TRUE
            /\ IF failing \in 1..Len(get_emails(listing))
               THEN /\ processed_emails' = process_emails(get_emails(listing), failing - 1)
                    /\ http_response' = Response("/fetch_emails", client, "error", << >>, 0)
                    /\ UNCHANGED last_fetch_time
               ELSE /\ processed_emails' =
                           process_emails(get_emails(listing), Len(get_emails(listing)))
                    /\ last_fetch_time' = PyDate(now)
                    /\ http_response' = Response("/fetch_emails", client, "success", << >>,
                                            Len(get_emails(listing)))
    /\ UNCHANGED session
    /\ UNCHANGED <<now, email, tasks, result, phase, manager, schedule, notify_vars,
                   learn_vars>>

\* /get_digest: the digest of the stored batch, an error without one
GetDigest(client) ==
    /\ http_response' = IF processed_emails = << >>
                   THEN Response("/get_digest", client, "error", << >>, 0)
                   ELSE Response("/get_digest", client, "success",
                                 email_ids(processed_emails), Len(processed_emails))
    /\ UNCHANGED <<processed_emails, last_fetch_time, service, session>>
    /\ UNCHANGED <<now, email, tasks, result, phase, manager, schedule, notify_vars,
                   learn_vars>>

\* /get_email_list
GetEmailList(client) ==
    /\ http_response' = Response("/get_email_list", client, "success",
                            email_ids(processed_emails), Len(processed_emails))
    /\ UNCHANGED <<processed_emails, last_fetch_time, service, session>>
    /\ UNCHANGED <<now, email, tasks, result, phase, manager, schedule, notify_vars,
                   learn_vars>>

\* /get_email_details/<email_id>: the first email with the id
GetEmailDetails(client, email_id) ==
    /\ http_response' = IF emails_with_id(processed_emails, email_id) = << >>
                   THEN Response("/get_email_details", client, "error", << >>, 0)
                   ELSE Response("/get_email_details", client, "success",
                                 <<email_id>>, 1)
    /\ UNCHANGED <<processed_emails, last_fetch_time, service, session>>
    /\ UNCHANGED <<now, email, tasks, result, phase, manager, schedule, notify_vars,
                   learn_vars>>

NextApp ==
    \/ Tick
    \/ \E client \in Clients, granted \in BOOLEAN : Auth(client, granted)
    \/ \E client \in Clients : Dashboard(client)
    \/ \E client \in Clients, granted \in (IF service THEN {TRUE} ELSE BOOLEAN),
          listing \in Responses :
             \E failing \in 0..Len(get_emails(listing)) :
                FetchEmails(client, granted, listing, failing)
    \/ \E client \in Clients : GetDigest(client)
    \/ \E client \in Clients : GetEmailList(client)
    \/ \E client \in Clients, email_id \in 1..MaxListing :
          GetEmailDetails(client, email_id)

SpecApp == Init /\ [][NextApp]_vars

\* C29: a /fetch_emails request that answers with an error leaves
\* processed_emails and last_fetch_time as they were before the request.
C29_FailedFetchKeepsState ==
    [][(http_response'.route = "/fetch_emails" /\ http_response'.status = "error")
          => (processed_emails' = processed_emails /\ last_fetch_time' = last_fetch_time)
      ]_vars

\* C30: a client whose session was never authenticated by /auth gets a
\* redirect or an error and no email content, whatever the route.
C30_ContentOnlyForAuthenticated ==
    (http_response.route # "none" /\ ~session[http_response.client])
        => /\ http_response.status \in {"redirect", "error"}
           /\ http_response.emails = << >>

====
